---- MODULE Spec2Model ----
(***************************************************************************)
(* Model of the image replication scripts:                                 *)
(*   src/bananna_bot.py         mirror flow  (mirror_image, run_docker,    *)
(*                              image_exists_in_registry, create_quay_repo)*)
(*   src/sync_bot.py            bulk sync    (list_all_repositories,       *)
(*                              list_all_tags, sync_image, main)           *)
(*   src/bananna_bot_config.py  REGISTRIES, ALLOWED_SOURCE_REGISTRIES,     *)
(*                              OPERATION_CONFIG                           *)
(*                                                                         *)
(* The container engine, the destination registry and the management API   *)
(* are the environment: every attempt's outcome is chosen from the         *)
(* outcomes the subprocess call can produce.                               *)
(*                                                                         *)
(* An image reference "a/b/c:d" is a sequence of '/'-separated segments,   *)
(* each segment the sequence of its ':'-separated pieces, so that          *)
(* split('/') and split(':') are computed and not assumed.                 *)
(***************************************************************************)
EXTENDS Integers, Sequences, FiniteSets, TLC

VARIABLES
    script,          \* the entry point that runs: "mirror_image" | "mirror_main" | "sync" |
                     \* "paging" | "run_docker" | "create_quay_repo"
    cfg,             \* OPERATION_CONFIG flags
    pc,              \* control location of the running script
    registry,        \* destination registry: the references whose manifest exists
    trace,           \* engine/API invocations and log codes of the unit of work in progress
    rd,              \* the run_docker invocation in progress
    cq,              \* the create_quay_repo invocation in progress
    source_img,      \* mirror_image argument
    target_envs,     \* mirror_image argument
    overall_success, \* mirror_image local
    envIdx,          \* mirror_image: position in "for env in target_envs"
    clIdx,           \* mirror_image: position in the cleanup loop over target_envs
    taskSum,         \* mirror_image: summary of the task so far (pull invocations and result, targets' outcomes)
    miResult,        \* mirror_image return value: "none" | "True" | "False" | "raised"
    prodCatalog,     \* sync: what the source registry holds, <<[name, tags], ...>>
    repositories,    \* sync main: result of list_all_repositories
    repoIdx,         \* sync main: position in "for repo_name in repositories"
    tags,            \* sync main: result of list_all_tags
    tagIdx,          \* sync main: position in "for tag in tags"
    stats,           \* sync main: total/successful/failed/skipped counters
    local_images,    \* sync_image local
    syResult,        \* sync_image return value: "none" | "True" | "False"
    task,            \* sync: what happened to the (repository, tag) being processed, and the tags listed so far
    exitCode,        \* sync main return value, -1 while running
    pg,              \* the list_all_repositories / list_all_tags call in progress
    catalog,         \* mirror main: IMAGES_TO_MIRROR in insertion order, <<[source, targets], ...>>
    tokens,          \* mirror main: what REGISTRIES[env]["api_token"] holds, per environment
    taskIdx,         \* mirror main: position in "for ... in IMAGES_TO_MIRROR.items()"
    run              \* mirror main: total/successful/failed counters and how the login phase ended

engineVars == <<registry, trace, rd, cq>>
mirrorVars == <<source_img, target_envs, overall_success, envIdx, clIdx, taskSum, miResult>>
syncVars == <<prodCatalog, repositories, repoIdx, tags, tagIdx, stats, local_images,
              syResult, task, exitCode>>
runVars == <<catalog, tokens, taskIdx, run>>
vars == <<script, cfg, pc, engineVars, mirrorVars, syncVars, pg, runVars>>

(***************************************************************************)
(* Bounds of the model.                                                    *)
(***************************************************************************)
MaxTargets == 2
\* list_all_*: items a page of the API can hold
MaxPageItems == 2
\* list_all_*: page numbers below MaxPage are kept exactly
MaxPage == 4
\* sync: repositories the source registry holds, and tags it holds in all
MaxImages == 2
\* sync: items the source registry's API puts on a page
ApiPageSize == 1
\* mirror main: images in IMAGES_TO_MIRROR
MaxTasks == 3

(***************************************************************************)
(* Configuration (src/bananna_bot_config.py).                              *)
(***************************************************************************)
REGISTRIES ==
    [ prod |-> [url |-> "quay-registry.apps.ocpcorpprod.icicibankltd.com",
                namespace |-> "apigee_hybrid_dmz_prod",
                organization |-> "apigee_hybrid_dmz_prod"],
      dr   |-> [url |-> "quay-registry.apps.ocpcorpdr.icicibankltd.com",
                namespace |-> "apigee_hybrid_dmz_prod",
                organization |-> "apigee_hybrid_dmz_prod"],
      uat  |-> [url |-> "quay-registry.apps.ocpcorpuat.icicibankltd.com",
                namespace |-> "tsg1-apigee-hybrid-dmz",
                organization |-> "tsg1-apigee-hybrid-dmz"] ]

\* Each allowed prefix "host/project" as its two segments.
ALLOWED_SOURCE_REGISTRIES ==
    { << <<"asia-south1-docker.pkg.dev">>, <<"tsg1-apigee-anthos-prod">> >>,
      << <<"asia.gcr.io">>, <<"tsg1-apigee-anthos-prod">> >> }

MaxRetries == 3

\* OPERATION_CONFIG as shipped.
DefaultConfig ==
    [continue_on_error |-> TRUE,
     create_repos_if_not_exists |-> TRUE,
     cleanup_local_images |-> FALSE]

Configs ==
    [continue_on_error : BOOLEAN,
     create_repos_if_not_exists : BOOLEAN,
     cleanup_local_images : BOOLEAN]

(***************************************************************************)
(* Inputs.                                                                 *)
(***************************************************************************)
\* asia-south1-docker.pkg.dev/tsg1-apigee-anthos-prod/asia-south1-docker-pkg-dev/account-validation-rajasthan-prod:f7b4af8
SrcConfigured ==
    << <<"asia-south1-docker.pkg.dev">>, <<"tsg1-apigee-anthos-prod">>,
       <<"asia-south1-docker-pkg-dev">>,
       <<"account-validation-rajasthan-prod", "f7b4af8">> >>
\* asia.gcr.io/other-project/aadhar-seeding-npci-prod:5389f2a (allowed host, other project)
SrcOtherProject ==
    << <<"asia.gcr.io">>, <<"other-project">>,
       <<"aadhar-seeding-npci-prod", "5389f2a">> >>
\* asia.gcr.io/tsg1-apigee-anthos-prod/aadhar-seeding-npci-prod (no tag)
SrcNoTag ==
    << <<"asia.gcr.io">>, <<"tsg1-apigee-anthos-prod">>,
       <<"aadhar-seeding-npci-prod">> >>
\* busybox:latest (a single segment)
SrcShort == << <<"busybox", "latest">> >>

SourceImages == {SrcConfigured, SrcOtherProject, SrcNoTag, SrcShort}

\* "qa" is not a key of REGISTRIES.
TargetNames == {"prod", "dr", "qa"}

RECURSIVE SeqsUpTo(_, _)
SeqsUpTo(S, n) ==
    IF n = 0 THEN {<<>>}
    ELSE LET shorter == SeqsUpTo(S, n - 1)
         IN  shorter \cup {Append(s, x) : s \in {t \in shorter : Len(t) = n - 1}, x \in S}

TargetLists == SeqsUpTo(TargetNames, MaxTargets)

\* A Python bool as a return value ("none": not returned yet).
PyBool(b) == IF b THEN "True" ELSE "False"

(***************************************************************************)
(* Trace events: one per run_docker / manifest inspect / API invocation    *)
(* and one per log code; idx is the position of the target (0: the task).  *)
(* The trace holds the events of the unit of work in progress: in the      *)
(* mirror flow the task up to its first target, then one target at a time, *)
(* then the cleanup; in bulk sync one (repository, tag) task.              *)
(***************************************************************************)
CallEv(op, args, idx) == [kind |-> "call", what |-> op, args |-> args, idx |-> idx, res |-> ""]
InspectEv(ref, idx, o) == [kind |-> "call", what |-> "manifest inspect", args |-> <<ref>>, idx |-> idx, res |-> o]
LogEv(code, idx) == [kind |-> "log", what |-> code, args |-> <<>>, idx |-> idx, res |-> ""]

(***************************************************************************)
(* run_docker: outcomes of one subprocess.run(cmd, check=True, ...).       *)
(***************************************************************************)
ExitCodes == {1, 2, 125}
\* stderr as a sequence of message tokens
StderrTexts == { <<>>, <<"not found">>, <<"Not Found">>, <<"denied">> }

AttemptOutcomes ==
    { [kind |-> "ok", code |-> 0, stderr |-> <<>>] }
    \cup [kind : {"exit"}, code : ExitCodes, stderr : StderrTexts]
    \cup { [kind |-> "timeout", code |-> 0, stderr |-> <<>>],
           [kind |-> "exception", code |-> 0, stderr |-> <<>>] }

\* The callers of run_docker read its result only, and the result depends on the
\* class of each attempt's outcome (success, not found, retried failure): inside
\* the two flows one outcome per class is explored, and every outcome for a
\* run_docker call on its own.
FlowOutcomes ==
    { [kind |-> "ok", code |-> 0, stderr |-> <<>>],
      [kind |-> "exit", code |-> 1, stderr |-> <<"not found">>],
      [kind |-> "timeout", code |-> 0, stderr |-> <<>>] }

OutcomesIn(scr) == IF scr = "run_docker" THEN AttemptOutcomes ELSE FlowOutcomes

NoOutcome == [kind |-> "none", code |-> 0, stderr |-> <<>>]

\* str.lower() on a message token
Lower(tok) ==
    CASE tok = "Not Found" -> "not found"
      [] OTHER -> tok

\* error_msg = stderr, or "Exit code: N" when stderr is empty
ErrorMsg(o) == IF o.stderr = <<>> THEN <<"Exit code">> ELSE o.stderr

\* "not found" in error_msg.lower()
ContainsNotFound(msg) == \E i \in 1..Len(msg) : Lower(msg[i]) = "not found"

\* Variant: the phrase alone decides, whatever the exit code.
IsNotFoundError_AnyExitCode(o) == ContainsNotFound(ErrorMsg(o))

\* e.returncode in [125, 1] and "not found" in error_msg.lower()
IsNotFoundError(o) == o.code \in {125, 1} /\ ContainsNotFound(ErrorMsg(o))

\* Variant: the last attempt is never granted.
RetryRemaining_OneFewer(attempt) == attempt < MaxRetries - 2

\* Variant: no attempt is ever followed by another.
RetryRemaining_Never(attempt) == FALSE

\* attempt < OPERATION_CONFIG['max_retries'] - 1
RetryRemaining(attempt) == attempt < MaxRetries - 1

\* Variant: the loop variable does not advance.
NextAttempt_Stuck(attempt) == attempt

\* the next value of "for attempt in range(max_retries)"
NextAttempt(attempt) == attempt + 1

\* Variant: a not-found exit is retried like any other failure.
RdDecision_RetriesNotFound(o, attempt) ==
    IF o.kind = "ok" THEN "return_true"
    ELSE IF RetryRemaining(attempt) THEN "retry"
    ELSE "return_false"

\* What one loop iteration does with the outcome of its subprocess call.
RdDecision(o, attempt) ==
    IF o.kind = "ok" THEN "return_true"
    ELSE IF o.kind = "exit" /\ IsNotFoundError(o) THEN "return_false"
    ELSE IF RetryRemaining(attempt) THEN "retry"
    ELSE "return_false"

RdIdle ==
    [op |-> "", args |-> <<>>, attempt |-> 0, execs |-> 0, sleeps |-> 0,
     last |-> NoOutcome, done |-> FALSE, result |-> FALSE, ret |-> ""]

RdNew(op, args, ret) == [RdIdle EXCEPT !.op = op, !.args = args, !.ret = ret]

\* A successful push makes the reference exist at the destination.
EngineEffect(op, args, o, reg) ==
    IF o.kind = "ok" /\ op = "push" THEN reg \cup {args[1]} ELSE reg

\* The engine's local image store after one docker command: a pull that
\* succeeds stores the pulled image, a tag that succeeds stores the new
\* reference, an rmi -f that succeeds removes its image; a command that fails
\* changes nothing.
LocalEffect(op, args, o, store) ==
    IF o.kind # "ok" THEN store
    ELSE IF op = "pull" THEN store \cup {args[1]}
    ELSE IF op = "tag" THEN store \cup {args[2]}
    ELSE IF op = "rmi -f" THEN store \ {args[1]}
    ELSE store

\* One iteration of the retry loop of the run_docker invocation in progress.
\* The local store is followed for the bulk sync's current task.
RunDockerStep ==
    /\ pc = "run_docker"
    /\ ~rd.done
    /\ IF rd.attempt >= MaxRetries
       THEN /\ rd' = [rd EXCEPT !.done = TRUE, !.result = FALSE]
            /\ UNCHANGED <<registry, task>>
       ELSE \E o \in OutcomesIn(script) :
              LET d == RdDecision(o, rd.attempt) IN
              /\ rd' = [rd EXCEPT !.execs = @ + 1,
                                  !.last = o,
                                  !.done = (d # "retry"),
                                  !.result = (d = "return_true"),
                                  !.sleeps = IF d = "retry" THEN @ + 1 ELSE @,
                                  !.attempt = IF d = "retry" THEN NextAttempt(@) ELSE @]
              /\ registry' = EngineEffect(rd.op, rd.args, o, registry)
              /\ task' = IF script = "sync"
                         THEN [task EXCEPT !.store = LocalEffect(rd.op, rd.args, o, @)]
                         ELSE task
    /\ UNCHANGED <<runVars, script, cfg, pc, trace, cq, mirrorVars, prodCatalog, repositories,
                   repoIdx, tags, tagIdx, stats, local_images, syResult, exitCode, pg>>

Returned(ret) == pc = "run_docker" /\ rd.done /\ rd.ret = ret

(***************************************************************************)
(* image_exists_in_registry: docker manifest inspect.                      *)
(***************************************************************************)
\* The manifest can be reported only when it exists; the check can fail
\* (non-zero exit, timeout, other error) whether or not it exists.  The three
\* failures are read alike: the mirror run explores one of them, a
\* mirror_image or sync run each.
InspectOutcomes(ref) ==
    (IF ref \in registry THEN {"exit0"} ELSE {})
    \cup (IF script = "mirror_main" THEN {"timeout"} ELSE {"nonzero", "timeout", "error"})

image_exists_in_registry(o) == o = "exit0"

(***************************************************************************)
(* create_quay_repo: one POST /api/v1/repository per attempt.              *)
(***************************************************************************)
\* curl's stdout as its lines: the response body, then the HTTP code (-w).
\* The registry's API ends a body with a newline, so the code is a line of
\* its own; an answer without a body is the code alone; a curl that failed to
\* connect prints nothing that survives strip().
ApiStdouts ==
    { <<"201">>,
      <<"Repository already exists", "400">>,
      <<"invalid repository name", "400">>,
      <<"401">>, <<"403">>, <<"500">>, <<"">> }

ApiOutcomes ==
    [kind : {"http"}, stdout : ApiStdouts]
    \cup { [kind |-> "timeout", stdout |-> <<>>], [kind |-> "exception", stdout |-> <<>>] }

\* Inside mirror_image one answer per class (created, already there, refused,
\* retried failure); every answer for a create_quay_repo call on its own.
FlowApiOutcomes ==
    { [kind |-> "http", stdout |-> <<"201">>],
      [kind |-> "http", stdout |-> <<"Repository already exists", "400">>],
      [kind |-> "http", stdout |-> <<"401">>],
      [kind |-> "timeout", stdout |-> <<>>] }

ApiOutcomesIn(scr) == IF scr = "create_quay_repo" THEN ApiOutcomes ELSE FlowApiOutcomes

NoApiOutcome == [kind |-> "none", stdout |-> <<>>]

\* lines[-1] if lines else "000"
HttpCode(lines) == IF Len(lines) = 0 THEN "000" ELSE lines[Len(lines)]
\* '\n'.join(lines[:-1]) if len(lines) > 1 else ""
ResponseBody(lines) == IF Len(lines) > 1 THEN SubSeq(lines, 1, Len(lines) - 1) ELSE <<>>
\* Variant: every 400 counts as "already exists".
SaysAlreadyExists_AnyBody(body) == TRUE

\* "already exists" in response_body.lower()
SaysAlreadyExists(body) ==
    \E i \in 1..Len(body) : body[i] \in {"Repository already exists", "repository already exists"}

\* Variant: 401 and 403 are retried like an unexpected code.
CqDecision_RetriesRefusal(o, attempt) ==
    IF o.kind = "http"
    THEN LET http_code == HttpCode(o.stdout)
             response_body == ResponseBody(o.stdout)
         IN  IF http_code = "201" THEN "return_true"
             ELSE IF http_code = "400" /\ SaysAlreadyExists(response_body) THEN "return_true"
             ELSE IF RetryRemaining(attempt) THEN "retry"
             ELSE "exhausted"
    ELSE IF RetryRemaining(attempt) THEN "retry" ELSE "exhausted"

\* What one loop iteration does with the answer to its request.
CqDecision(o, attempt) ==
    IF o.kind = "http"
    THEN LET http_code == HttpCode(o.stdout)
             response_body == ResponseBody(o.stdout)
         IN  IF http_code = "201" THEN "return_true"
             ELSE IF http_code = "400" /\ SaysAlreadyExists(response_body) THEN "return_true"
             ELSE IF http_code \in {"401", "403"} THEN "return_false"
             ELSE IF RetryRemaining(attempt) THEN "retry"
             ELSE "exhausted"
    ELSE IF RetryRemaining(attempt) THEN "retry" ELSE "exhausted"

\* The last log entry of a create_quay_repo call that returns False: the
\* refusal's entry, or REPO_CREATE_FAILED after the loop.
CqFailureLog(o, idx) ==
    IF o.kind = "http" /\ HttpCode(o.stdout) = "401" THEN LogEv("REPO_AUTH_FAILED", idx)
    ELSE IF o.kind = "http" /\ HttpCode(o.stdout) = "403"
    THEN LogEv("REPO_PERMISSION_DENIED", idx)
    ELSE LogEv("REPO_CREATE_FAILED", idx)

\* seen: the answers of the attempts made so far, in order
CqIdle ==
    [repo |-> <<>>, attempt |-> 0, execs |-> 0, sleeps |-> 0, seen |-> <<>>,
     last |-> NoApiOutcome, done |-> FALSE, result |-> FALSE, ret |-> "none"]

\* ret names the statement that gets the result
CqNew(repo_path, ret) == [CqIdle EXCEPT !.repo = repo_path, !.ret = ret]

\* One iteration of the retry loop of the create_quay_repo call in progress.
CreateQuayRepoStep ==
    /\ pc = "create_quay_repo"
    /\ ~cq.done
    /\ IF cq.attempt >= MaxRetries
       THEN cq' = [cq EXCEPT !.done = TRUE, !.result = FALSE]
       ELSE \E o \in ApiOutcomesIn(script) :
              LET d == CqDecision(o, cq.attempt) IN
              cq' = [cq EXCEPT !.execs = @ + 1,
                               !.seen = Append(@, o),
                               !.last = o,
                               !.done = (d # "retry"),
                               !.result = (d = "return_true"),
                               !.sleeps = IF d = "retry" THEN @ + 1 ELSE @,
                               !.attempt = IF d = "retry" THEN NextAttempt(@) ELSE @]
    /\ UNCHANGED <<runVars, script, cfg, pc, registry, trace, rd, mirrorVars, syncVars, pg>>

(***************************************************************************)
(* get_destination_image_path.                                             *)
(***************************************************************************)
\* image_name, tag = parts[-1].split(':') raises unless there are two pieces
PathParses(src) == Len(src) >= 2 /\ Len(src[Len(src)]) = 2

get_destination_image_path(src, registry_config) ==
    LET project == src[2]
        image_name == src[Len(src)][1]
        tag == src[Len(src)][2]
        base == [url |-> registry_config.url, org |-> registry_config.namespace,
                 project |-> project, image_name |-> image_name]
    IN  [dest_img |-> base @@ [tag |-> tag],
         latest_img |-> base @@ [tag |-> "latest"],
         repo_path |-> <<project, image_name>>,
         tag |-> tag]

(***************************************************************************)
(* mirror_image.                                                           *)
(***************************************************************************)
\* "/".join(source_img.split('/')[:2])
SourcePrefix(src) == SubSeq(src, 1, IF Len(src) < 2 THEN Len(src) ELSE 2)

\* Variant: the host alone is compared with the allow-list.
SourceAuthorized_HostOnly(src) ==
    Len(src) >= 1 /\ \E allowed \in ALLOWED_SOURCE_REGISTRIES : allowed[1] = src[1]

SourceAuthorized(src) == SourcePrefix(src) \in ALLOWED_SOURCE_REGISTRIES

Knows(env) == env \in DOMAIN REGISTRIES

CurEnv == target_envs[envIdx]
CurPath == get_destination_image_path(source_img, REGISTRIES[CurEnv])

HasLog(tr, code) == \E i \in 1..Len(tr) : tr[i].kind = "log" /\ tr[i].what = code

\* The target whose events are tr was skipped, or got its versioned and its latest push.
TargetReached(tr) ==
    \/ HasLog(tr, "IMAGE_ALREADY_EXISTS")
    \/ HasLog(tr, "PUSH_SUCCESS") /\ HasLog(tr, "LATEST_UPDATED")

\* The summary of a task before its first step: no pull invoked, no pull
\* succeeded, no target missed.
NoTaskSum == [pulls |-> 0, pullOk |-> FALSE, allOk |-> TRUE]

Emit(evs) == trace' = trace \o evs

\* The end of the loop body, or "continue": on to the next target.
NextTarget(evs) ==
    /\ Emit(evs)
    /\ envIdx' = envIdx + 1
    /\ pc' = "mi_env"
    /\ taskSum' = [taskSum EXCEPT !.allOk = @ /\ TargetReached(trace \o evs)]

\* run_docker(op, *args) is entered; retTo names the statement that gets its result
Invoke(op, args, idx, retTo, before) ==
    /\ trace' = before \o <<CallEv(op, args, idx)>>
    /\ rd' = RdNew(op, args, retTo)
    /\ pc' = "run_docker"

\* Steps 1 and 2: source validation, then the pull is entered.
MirrorImageStart ==
    /\ pc = "mi_start"
    /\ IF ~SourceAuthorized(source_img)
       THEN /\ Emit(<<LogEv("SOURCE_UNAUTHORIZED", 0)>>)
            /\ miResult' = "False"
            /\ pc' = "mi_done"
            /\ UNCHANGED <<rd, taskSum>>
       ELSE /\ Invoke("pull", <<source_img>>, 0, "mi_pulled",
                      trace \o <<LogEv("SOURCE_AUTHORIZED", 0)>>)
            /\ taskSum' = [taskSum EXCEPT !.pulls = @ + 1]
            /\ UNCHANGED miResult
    /\ UNCHANGED <<runVars, script, cfg, registry, cq, source_img, target_envs, overall_success,
                   envIdx, clIdx, syncVars, pg>>

\* Variant: a failed pull is made once more before the targets are processed.
MirrorImagePulled_PullsAgain ==
    /\ Returned("mi_pulled")
    /\ IF ~rd.result /\ taskSum.pulls < 2
       THEN /\ Invoke("pull", <<source_img>>, 0, "mi_pulled",
                      trace \o <<LogEv("PULL_FAILED", 0)>>)
            /\ taskSum' = [taskSum EXCEPT !.pulls = @ + 1]
            /\ UNCHANGED <<overall_success, miResult>>
       ELSE /\ rd' = RdIdle
            /\ pc' = "mi_env"
            /\ overall_success' = rd.result
            /\ taskSum' = [taskSum EXCEPT !.pullOk = rd.result]
            /\ UNCHANGED <<trace, miResult>>
    /\ UNCHANGED <<runVars, script, cfg, registry, cq, source_img, target_envs, envIdx, clIdx,
                   syncVars, pg>>

\* Variant: with continue_on_error enabled a failed pull is only logged.
MirrorImagePulled_ForgetsFailure ==
    /\ Returned("mi_pulled")
    /\ rd' = RdIdle
    /\ IF ~rd.result
       THEN /\ Emit(<<LogEv("PULL_FAILED", 0)>>)
            /\ IF ~cfg.continue_on_error
               THEN /\ miResult' = "False"
                    /\ pc' = "mi_done"
               ELSE /\ pc' = "mi_env"
                    /\ UNCHANGED miResult
       ELSE /\ pc' = "mi_env"
            /\ UNCHANGED <<trace, miResult>>
    /\ UNCHANGED overall_success
    /\ taskSum' = [taskSum EXCEPT !.pullOk = rd.result]
    /\ UNCHANGED <<runVars, script, cfg, registry, cq, source_img, target_envs, envIdx, clIdx,
                   syncVars, pg>>

\* Step 2, after the pull returned.
MirrorImagePulled ==
    /\ Returned("mi_pulled")
    /\ rd' = RdIdle
    /\ IF ~rd.result
       THEN /\ Emit(<<LogEv("PULL_FAILED", 0)>>)
            /\ IF ~cfg.continue_on_error
               THEN /\ miResult' = "False"
                    /\ pc' = "mi_done"
                    /\ UNCHANGED overall_success
               ELSE /\ overall_success' = FALSE
                    /\ pc' = "mi_env"
                    /\ UNCHANGED miResult
       ELSE /\ pc' = "mi_env"
            /\ UNCHANGED <<trace, overall_success, miResult>>
    /\ taskSum' = [taskSum EXCEPT !.pullOk = rd.result]
    /\ UNCHANGED <<runVars, script, cfg, registry, cq, source_img, target_envs, envIdx, clIdx,
                   syncVars, pg>>

\* Variant: an unknown target is passed over without failing the task.
MirrorImageEnv_UnknownIsSkipped ==
    /\ pc = "mi_env"
    /\ IF envIdx > Len(target_envs)
       THEN /\ pc' = "mi_cleanup"
            /\ UNCHANGED <<trace, rd, overall_success, envIdx, taskSum, miResult>>
       ELSE IF ~Knows(CurEnv)
       THEN /\ trace' = <<LogEv("ENV_UNKNOWN", envIdx)>>
            /\ envIdx' = envIdx + 1
            /\ taskSum' = [taskSum EXCEPT !.allOk = FALSE]
            /\ UNCHANGED <<pc, rd, miResult, overall_success>>
       ELSE IF ~PathParses(source_img)
       THEN /\ trace' = <<LogEv("ENV_PROCESSING", envIdx)>>
            /\ miResult' = "raised"
            /\ pc' = "mi_done"
            /\ UNCHANGED <<rd, overall_success, envIdx, taskSum>>
       ELSE \E o \in InspectOutcomes(CurPath.dest_img) :
              LET seen == <<LogEv("ENV_PROCESSING", envIdx),
                            InspectEv(CurPath.dest_img, envIdx, o)>>
              IN  IF image_exists_in_registry(o)
                  THEN /\ trace' = seen \o <<LogEv("IMAGE_ALREADY_EXISTS", envIdx)>>
                       /\ envIdx' = envIdx + 1
                       /\ UNCHANGED <<pc, rd, overall_success, taskSum, miResult>>
                  ELSE /\ Invoke("tag", <<source_img, CurPath.dest_img>>, envIdx,
                                 "mi_tagged", seen)
                       /\ UNCHANGED <<overall_success, envIdx, taskSum, miResult>>
    /\ UNCHANGED <<runVars, script, cfg, registry, cq, source_img, target_envs, clIdx, syncVars, pg>>

\* Step 3 loop head, path construction and step 4 (existence check); a target
\* that is not skipped enters step 5 (tag).
MirrorImageEnv ==
    /\ pc = "mi_env"
    /\ IF envIdx > Len(target_envs)
       THEN /\ pc' = "mi_cleanup"
            /\ UNCHANGED <<trace, rd, overall_success, envIdx, taskSum, miResult>>
       ELSE IF ~Knows(CurEnv)
       THEN /\ trace' = <<LogEv("ENV_UNKNOWN", envIdx)>>
            /\ overall_success' = FALSE
            /\ envIdx' = envIdx + 1
            /\ taskSum' = [taskSum EXCEPT !.allOk = FALSE]
            /\ UNCHANGED <<pc, rd, miResult>>
       ELSE IF ~PathParses(source_img)
       THEN /\ trace' = <<LogEv("ENV_PROCESSING", envIdx)>>
            /\ miResult' = "raised"
            /\ pc' = "mi_done"
            /\ UNCHANGED <<rd, overall_success, envIdx, taskSum>>
       ELSE \E o \in InspectOutcomes(CurPath.dest_img) :
              LET seen == <<LogEv("ENV_PROCESSING", envIdx),
                            InspectEv(CurPath.dest_img, envIdx, o)>>
              IN  IF image_exists_in_registry(o)
                  THEN /\ trace' = seen \o <<LogEv("IMAGE_ALREADY_EXISTS", envIdx)>>
                       /\ envIdx' = envIdx + 1
                       /\ UNCHANGED <<pc, rd, overall_success, taskSum, miResult>>
                  ELSE /\ Invoke("tag", <<source_img, CurPath.dest_img>>, envIdx,
                                 "mi_tagged", seen)
                       /\ UNCHANGED <<overall_success, envIdx, taskSum, miResult>>
    /\ UNCHANGED <<runVars, script, cfg, registry, cq, source_img, target_envs, clIdx, syncVars, pg>>

\* Variant: step 6 is run whatever the switch says.
ProvisioningEnabled_Always == TRUE

\* if OPERATION_CONFIG['create_repos_if_not_exists']
ProvisioningEnabled == cfg.create_repos_if_not_exists

\* Step 5 result, then step 6 (provisioning) or step 7 (push) is entered.
MirrorImageTagged ==
    /\ Returned("mi_tagged")
    /\ IF ~rd.result
       THEN /\ NextTarget(<<LogEv("TAG_FAILED", envIdx)>>)
            /\ overall_success' = FALSE
            /\ rd' = RdIdle
            /\ UNCHANGED cq
       ELSE IF ProvisioningEnabled
       THEN /\ Emit(<<CallEv("create_quay_repo", <<CurPath.repo_path>>, envIdx)>>)
            /\ cq' = CqNew(CurPath.repo_path, "mi_provisioned")
            /\ pc' = "create_quay_repo"
            /\ rd' = RdIdle
            /\ UNCHANGED <<overall_success, envIdx, taskSum>>
       ELSE /\ Invoke("push", <<CurPath.dest_img>>, envIdx, "mi_pushed", trace)
            /\ UNCHANGED <<cq, overall_success, envIdx, taskSum>>
    /\ UNCHANGED <<runVars, script, cfg, registry, source_img, target_envs, clIdx, miResult,
                   syncVars, pg>>

\* Variant: a failed provisioning abandons the target whatever the switch says.
AbandonsTarget_OnAnyFailure(created) == ~created

\* "if not create_quay_repo(...)" ... "if not OPERATION_CONFIG['continue_on_error']:
\* overall_success = False; continue"
AbandonsTarget(created) == ~created /\ ~cfg.continue_on_error

\* Step 6 result, then step 7 (push) is entered.
MirrorImageProvisioned ==
    /\ pc = "create_quay_repo"
    /\ cq.done
    /\ cq.ret = "mi_provisioned"
    /\ cq' = CqIdle
    /\ IF AbandonsTarget(cq.result)
       THEN /\ NextTarget(<<CqFailureLog(cq.last, envIdx), LogEv("REPO_PREP_FAILED", envIdx)>>)
            /\ overall_success' = FALSE
            /\ UNCHANGED rd
       ELSE /\ Invoke("push", <<CurPath.dest_img>>, envIdx, "mi_pushed",
                      trace \o IF cq.result THEN <<>>
                               ELSE <<CqFailureLog(cq.last, envIdx),
                                      LogEv("REPO_PREP_FAILED", envIdx)>>)
            /\ UNCHANGED <<overall_success, envIdx, taskSum>>
    /\ UNCHANGED <<runVars, script, cfg, registry, source_img, target_envs, clIdx, miResult,
                   syncVars, pg>>

\* The log codes of a failed step: ENV_SUCCESS follows unless the step's
\* "if not continue_on_error: continue" is taken.
StepFailed(code) ==
    <<LogEv(code, envIdx)>>
    \o IF ~cfg.continue_on_error THEN <<>> ELSE <<LogEv("ENV_SUCCESS", envIdx)>>

\* Variant: step 8 is entered whatever the versioned push returned.
MirrorImagePushed_LatestAnyway ==
    /\ Returned("mi_pushed")
    /\ Invoke("tag", <<source_img, CurPath.latest_img>>, envIdx, "mi_ltagged",
              trace \o <<LogEv(IF rd.result THEN "PUSH_SUCCESS" ELSE "PUSH_FAILED", envIdx)>>)
    /\ overall_success' = (overall_success /\ rd.result)
    /\ UNCHANGED <<envIdx, taskSum>>
    /\ UNCHANGED <<runVars, script, cfg, registry, cq, source_img, target_envs, clIdx, miResult,
                   syncVars, pg>>

\* Step 7 result, then step 8 (tag latest) is entered.
MirrorImagePushed ==
    /\ Returned("mi_pushed")
    /\ IF ~rd.result
       THEN /\ NextTarget(StepFailed("PUSH_FAILED"))
            /\ overall_success' = FALSE
            /\ rd' = RdIdle
       ELSE /\ Invoke("tag", <<source_img, CurPath.latest_img>>, envIdx, "mi_ltagged",
                      trace \o <<LogEv("PUSH_SUCCESS", envIdx)>>)
            /\ UNCHANGED <<overall_success, envIdx, taskSum>>
    /\ UNCHANGED <<runVars, script, cfg, registry, cq, source_img, target_envs, clIdx, miResult,
                   syncVars, pg>>

\* Step 8 result, then step 9 (push latest) is entered.
MirrorImageLatestTagged ==
    /\ Returned("mi_ltagged")
    /\ IF ~rd.result
       THEN /\ NextTarget(StepFailed("LATEST_TAG_FAILED"))
            /\ overall_success' = FALSE
            /\ rd' = RdIdle
       ELSE /\ Invoke("push", <<CurPath.latest_img>>, envIdx, "mi_lpushed", trace)
            /\ UNCHANGED <<overall_success, envIdx, taskSum>>
    /\ UNCHANGED <<runVars, script, cfg, registry, cq, source_img, target_envs, clIdx, miResult,
                   syncVars, pg>>

\* Variant: a failed push of the latest alias leaves overall_success alone.
MirrorImageLatestPushed_KeepsSuccess ==
    /\ Returned("mi_lpushed")
    /\ rd' = RdIdle
    /\ IF ~rd.result
       THEN NextTarget(StepFailed("LATEST_PUSH_FAILED"))
       ELSE NextTarget(<<LogEv("LATEST_UPDATED", envIdx), LogEv("ENV_SUCCESS", envIdx)>>)
    /\ UNCHANGED overall_success
    /\ UNCHANGED <<runVars, script, cfg, registry, cq, source_img, target_envs, clIdx, miResult,
                   syncVars, pg>>

\* Step 9 result and the end of the loop body.
MirrorImageLatestPushed ==
    /\ Returned("mi_lpushed")
    /\ rd' = RdIdle
    /\ IF ~rd.result
       THEN /\ NextTarget(StepFailed("LATEST_PUSH_FAILED"))
            /\ overall_success' = FALSE
       ELSE /\ NextTarget(<<LogEv("LATEST_UPDATED", envIdx), LogEv("ENV_SUCCESS", envIdx)>>)
            /\ UNCHANGED overall_success
    /\ UNCHANGED <<runVars, script, cfg, registry, cq, source_img, target_envs, clIdx, miResult,
                   syncVars, pg>>

\* Variant: a removal that failed turns the returned outcome into failure.
MirrorImageReturn_FailsOnRemoval(before) ==
    LET kept == overall_success /\ (rd.op = "rmi" => rd.result)
    IN  /\ miResult' = PyBool(kept)
        /\ pc' = "mi_done"
        /\ trace' = before \o <<LogEv(IF kept THEN "MIRROR_SUCCESS" ELSE "MIRROR_PARTIAL", 0)>>

\* The final status log and the return value.
MirrorImageReturn(before) ==
    /\ miResult' = PyBool(overall_success)
    /\ pc' = "mi_done"
    /\ trace' = before \o
                <<LogEv(IF overall_success THEN "MIRROR_SUCCESS" ELSE "MIRROR_PARTIAL", 0)>>

\* Step 10 entered: nothing to do unless cleanup_local_images, else rmi of the source.
MirrorImageCleanup ==
    /\ pc = "mi_cleanup"
    /\ IF cfg.cleanup_local_images
       THEN /\ Invoke("rmi", <<source_img>>, 0, "mi_cl_src", <<LogEv("CLEANUP_START", 0)>>)
            /\ UNCHANGED miResult
       ELSE /\ MirrorImageReturn(trace)
            /\ UNCHANGED rd
    /\ UNCHANGED <<runVars, script, cfg, registry, cq, source_img, target_envs, overall_success,
                   envIdx, clIdx, taskSum, syncVars, pg>>

\* Step 10 loop: per known target rmi of the destination, then of its latest alias.
MirrorImageCleanupLoop ==
    /\ pc = "run_docker" /\ rd.done /\ rd.ret \in {"mi_cl_src", "mi_cl_dest", "mi_cl_latest"}
    /\ LET from == IF rd.ret = "mi_cl_src" THEN 1
                   ELSE IF rd.ret = "mi_cl_dest" THEN clIdx ELSE clIdx + 1
           known == {i \in from..Len(target_envs) : Knows(target_envs[i])}
           path(i) == get_destination_image_path(source_img, REGISTRIES[target_envs[i]])
       IN  IF rd.ret = "mi_cl_dest"
           THEN /\ Invoke("rmi", <<path(clIdx).latest_img>>, clIdx, "mi_cl_latest", trace)
                /\ UNCHANGED <<clIdx, miResult>>
           ELSE IF known = {}
           THEN /\ MirrorImageReturn(trace \o <<LogEv("CLEANUP_DONE", 0)>>)
                /\ rd' = RdIdle
                /\ UNCHANGED clIdx
           ELSE LET i == CHOOSE k \in known : \A j \in known : k <= j
                IN  /\ clIdx' = i
                    /\ Invoke("rmi", <<path(i).dest_img>>, i, "mi_cl_dest", trace)
                    /\ UNCHANGED miResult
    /\ UNCHANGED <<runVars, script, cfg, registry, cq, source_img, target_envs, overall_success,
                   envIdx, taskSum, syncVars, pg>>

(***************************************************************************)
(* list_all_repositories / list_all_tags: pagination over the management   *)
(* API.  A JSON item is [name |-> n]; n = <<>> stands for a missing, null  *)
(* or empty name.                                                          *)
(***************************************************************************)
NoName == <<>>

ListFailures ==
    { [kind |-> k, items |-> <<>>, more |-> "absent"] :
        k \in {"nonzero", "timeout", "parse_error", "exception"} }

NoResponse == [kind |-> "none", items |-> <<>>, more |-> "absent"]

\* Any API: page p holds up to MaxPageItems items, item i named <<p, i>>, at most
\* one of them unnamed, with has_additional true, false or missing.
PageShapes(p) ==
    UNION { { [i \in 1..n |-> IF i = u THEN 0 ELSE 1] : u \in 0..n } : n \in 0..MaxPageItems }

AnyResponses(p) ==
    { [kind |-> "json",
       items |-> [i \in DOMAIN shape |-> [name |-> IF shape[i] = 1 THEN <<p, i>> ELSE NoName]],
       more |-> m] : shape \in PageShapes(p), m \in {"true", "false", "absent"} }
    \cup ListFailures

\* The source registry's API: page p of the listing, ApiPageSize items a page,
\* has_additional telling whether items remain; any request can fail.
ServerPage(listing, p) ==
    LET first == (p - 1) * ApiPageSize + 1
        last == IF p * ApiPageSize < Len(listing) THEN p * ApiPageSize ELSE Len(listing)
    IN  [kind |-> "json",
         items |-> [i \in 1..(IF last >= first THEN last - first + 1 ELSE 0) |->
                      [name |-> listing[first + i - 1]]],
         more |-> IF p * ApiPageSize < Len(listing) THEN "true" ELSE "false"]

CatalogNames == [i \in DOMAIN prodCatalog |-> prodCatalog[i].name]

CatalogTags(repo_name) ==
    IF \E i \in DOMAIN prodCatalog : prodCatalog[i].name = repo_name
    THEN prodCatalog[CHOOSE i \in DOMAIN prodCatalog : prodCatalog[i].name = repo_name].tags
    ELSE <<>>

ServerResponses ==
    { ServerPage(IF pg.kind = "repositories" THEN CatalogNames ELSE CatalogTags(pg.repo),
                 pg.page) }
    \cup ListFailures

PgNew(kind, repo) ==
    [kind |-> kind, repo |-> repo, page |-> 1, all |-> <<>>, resp |-> NoResponse,
     requests |-> <<>>, responses |-> <<>>, done |-> FALSE]

PgIdle == PgNew("none", NoName)

\* page += 1.  MaxPage stands for every page number from MaxPage on.
NextPage(page) == IF page < MaxPage THEN page + 1 ELSE MaxPage

\* The names of the items that have one, in order.
RECURSIVE NamesOf(_)
NamesOf(items) ==
    IF items = <<>> THEN <<>>
    ELSE (IF Head(items).name # NoName THEN <<Head(items).name>> ELSE <<>>)
         \o NamesOf(Tail(items))

\* all_repos.append(...) for each name; from page MaxPage on the names are not kept
Accumulate(all, names, page) ==
    IF page < MaxPage THEN all \o names ELSE all

\* Variant: the flag is not read, the next page is always requested.
HasAdditional_Always(r) == TRUE

\* data.get('has_additional', False)
HasAdditional(r) == r.more = "true"

\* subprocess.run(curl ... &page=N): the request of the current page is answered.
PgRequest ==
    /\ pc = "paging"
    /\ ~pg.done
    /\ pg.resp = NoResponse
    /\ \E r \in (IF script = "paging" THEN AnyResponses(pg.page) ELSE ServerResponses) :
         pg' = [pg EXCEPT !.resp = r,
                          !.requests = IF pg.page < MaxPage THEN Append(@, pg.page) ELSE @,
                          !.responses = IF pg.page < MaxPage THEN Append(@, r) ELSE @]
    /\ UNCHANGED <<runVars, script, cfg, pc, engineVars, mirrorVars, syncVars>>

\* Variant: a failed request discards the names of the earlier pages.
PgProcess_DropsOnFailure ==
    /\ pc = "paging"
    /\ ~pg.done
    /\ pg.resp # NoResponse
    /\ LET r == pg.resp IN
       IF r.kind # "json"
       THEN pg' = [pg EXCEPT !.resp = NoResponse, !.done = TRUE, !.all = <<>>]
       ELSE IF r.items = <<>>
       THEN pg' = [pg EXCEPT !.resp = NoResponse, !.done = TRUE]
       ELSE pg' = [pg EXCEPT !.resp = NoResponse,
                             !.all = Accumulate(@, NamesOf(r.items), pg.page),
                             !.done = ~HasAdditional(r),
                             !.page = IF HasAdditional(r) THEN NextPage(@) ELSE @]
    /\ UNCHANGED <<runVars, script, cfg, pc, engineVars, mirrorVars, syncVars>>

\* The rest of the loop body: the answer is parsed, its names are appended and
\* the loop breaks or goes on to the next page.
PgProcess ==
    /\ pc = "paging"
    /\ ~pg.done
    /\ pg.resp # NoResponse
    /\ LET r == pg.resp IN
       IF r.kind # "json" \/ r.items = <<>>
       THEN pg' = [pg EXCEPT !.resp = NoResponse, !.done = TRUE]
       ELSE pg' = [pg EXCEPT !.resp = NoResponse,
                             !.all = Accumulate(@, NamesOf(r.items), pg.page),
                             !.done = ~HasAdditional(r),
                             !.page = IF HasAdditional(r) THEN NextPage(@) ELSE @]
    /\ UNCHANGED <<runVars, script, cfg, pc, engineVars, mirrorVars, syncVars>>

(***************************************************************************)
(* sync_image and cleanup_local_images.                                    *)
(***************************************************************************)
\* f"{config['url']}/{config['namespace']}/{repo_name}:{tag}"
ImageUrl(registry_config, repo_name, tag) ==
    [url |-> registry_config.url, org |-> registry_config.namespace,
     repo |-> repo_name, tag |-> tag]

prod_image == ImageUrl(REGISTRIES["prod"], task.repo, task.tag)
dr_image == ImageUrl(REGISTRIES["dr"], task.repo, task.tag)

\* return True / return False
SyncImageReturn(value, before) ==
    /\ syResult' = PyBool(value)
    /\ pc' = "sy_done"
    /\ trace' = before

\* Variant: sync_image returns without removing anything.
BeginCleanup_NoRollback(image_list, retTo, before) ==
    /\ SyncImageReturn(retTo = "sy_cl_ok", before)
    /\ rd' = RdIdle
    /\ UNCHANGED clIdx

\* cleanup_local_images(image_list) is entered: the first rmi -f, if any.
\* retTo tells what sync_image returns afterwards.
BeginCleanup(image_list, retTo, before) ==
    IF image_list = <<>>
    THEN /\ SyncImageReturn(retTo = "sy_cl_ok",
                            before \o <<LogEv("CLEANUP_START", 0), LogEv("CLEANUP_DONE", 0)>>)
         /\ rd' = RdIdle
         /\ UNCHANGED clIdx
    ELSE /\ Invoke("rmi -f", <<image_list[1]>>, 0, retTo, before \o <<LogEv("CLEANUP_START", 0)>>)
         /\ clIdx' = 1
         /\ UNCHANGED syResult

\* Step 1: the existence check; an image that is not reported enters step 2 (pull).
SyncImageStart ==
    /\ pc = "sy_start"
    /\ \E o \in InspectOutcomes(dr_image) :
         IF image_exists_in_registry(o)
         THEN /\ SyncImageReturn(TRUE, <<InspectEv(dr_image, 0, o),
                                         LogEv("SYNC_ALREADY_EXISTS", 0)>>)
              /\ UNCHANGED rd
         ELSE /\ Invoke("pull", <<prod_image>>, 0, "sy_pulled",
                        <<InspectEv(dr_image, 0, o), LogEv("SYNC_PULLING", 0)>>)
              /\ UNCHANGED syResult
    /\ UNCHANGED <<runVars, script, cfg, registry, cq, mirrorVars, prodCatalog, repositories, repoIdx,
                   tags, tagIdx, stats, local_images, task, exitCode, pg>>

\* Step 2 result, then step 3 (tag) is entered.
SyncImagePulled ==
    /\ Returned("sy_pulled")
    /\ IF ~rd.result
       THEN /\ SyncImageReturn(FALSE, trace \o <<LogEv("SYNC_PULL_FAILED", 0)>>)
            /\ rd' = RdIdle
            /\ UNCHANGED local_images
       ELSE /\ local_images' = Append(local_images, prod_image)
            /\ Invoke("tag", <<prod_image, dr_image>>, 0, "sy_tagged",
                      trace \o <<LogEv("SYNC_TAGGING", 0)>>)
            /\ UNCHANGED syResult
    /\ UNCHANGED <<runVars, script, cfg, registry, cq, mirrorVars, prodCatalog, repositories, repoIdx,
                   tags, tagIdx, stats, task, exitCode, pg>>

\* Variant: the destination reference is listed before the tag result is read,
\* so that a failed tag rolls back both references.
SyncImageTagged_RollsBackBoth ==
    /\ Returned("sy_tagged")
    /\ local_images' = Append(local_images, dr_image)
    /\ IF ~rd.result
       THEN BeginCleanup(local_images', "sy_cl_fail", trace \o <<LogEv("SYNC_TAG_FAILED", 0)>>)
       ELSE /\ Invoke("push", <<dr_image>>, 0, "sy_pushed",
                      trace \o <<LogEv("SYNC_PUSHING", 0)>>)
            /\ UNCHANGED <<syResult, clIdx>>
    /\ UNCHANGED <<runVars, script, cfg, registry, cq, source_img, target_envs, overall_success,
                   envIdx, taskSum, miResult, prodCatalog, repositories, repoIdx,
                   tags, tagIdx, stats, task, exitCode, pg>>

\* Step 3 result, then step 4 (push) is entered.
SyncImageTagged ==
    /\ Returned("sy_tagged")
    /\ IF ~rd.result
       THEN /\ BeginCleanup(local_images, "sy_cl_fail", trace \o <<LogEv("SYNC_TAG_FAILED", 0)>>)
            /\ UNCHANGED local_images
       ELSE /\ local_images' = Append(local_images, dr_image)
            /\ Invoke("push", <<dr_image>>, 0, "sy_pushed",
                      trace \o <<LogEv("SYNC_PUSHING", 0)>>)
            /\ UNCHANGED <<syResult, clIdx>>
    /\ UNCHANGED <<runVars, script, cfg, registry, cq, source_img, target_envs, overall_success,
                   envIdx, taskSum, miResult, prodCatalog, repositories, repoIdx,
                   tags, tagIdx, stats, task, exitCode, pg>>

\* Variant: a push that is reported successful is not verified.
SyncImagePushed_TrustsPush ==
    /\ Returned("sy_pushed")
    /\ IF ~rd.result
       THEN BeginCleanup(local_images, "sy_cl_fail", trace \o <<LogEv("SYNC_PUSH_FAILED", 0)>>)
       ELSE BeginCleanup(local_images, "sy_cl_ok", trace)
    /\ UNCHANGED <<runVars, script, cfg, registry, cq, source_img, target_envs, overall_success,
                   envIdx, taskSum, miResult, prodCatalog, repositories, repoIdx,
                   tags, tagIdx, stats, local_images, task, exitCode, pg>>

\* Step 4 result, step 5 (verification) and the entry of the cleanup.
SyncImagePushed ==
    /\ Returned("sy_pushed")
    /\ IF ~rd.result
       THEN BeginCleanup(local_images, "sy_cl_fail", trace \o <<LogEv("SYNC_PUSH_FAILED", 0)>>)
       ELSE \E o \in InspectOutcomes(dr_image) :
              LET seen == trace \o <<LogEv("SYNC_VERIFYING", 0), InspectEv(dr_image, 0, o)>>
              IN  IF ~image_exists_in_registry(o)
                  THEN BeginCleanup(local_images, "sy_cl_fail",
                                    seen \o <<LogEv("SYNC_VERIFY_FAILED", 0)>>)
                  ELSE BeginCleanup(local_images, "sy_cl_ok", seen)
    /\ UNCHANGED <<runVars, script, cfg, registry, cq, source_img, target_envs, overall_success,
                   envIdx, taskSum, miResult, prodCatalog, repositories, repoIdx,
                   tags, tagIdx, stats, local_images, task, exitCode, pg>>

\* cleanup_local_images: the next rmi -f, or the end of the loop and sync_image's return.
SyncImageCleanupLoop ==
    /\ pc = "run_docker" /\ rd.done /\ rd.ret \in {"sy_cl_fail", "sy_cl_ok"}
    /\ IF clIdx < Len(local_images)
       THEN /\ Invoke("rmi -f", <<local_images[clIdx + 1]>>, 0, rd.ret, trace)
            /\ clIdx' = clIdx + 1
            /\ UNCHANGED syResult
       ELSE /\ SyncImageReturn(rd.ret = "sy_cl_ok",
                               trace \o <<LogEv("CLEANUP_DONE", 0)>>
                                     \o IF rd.ret = "sy_cl_ok"
                                        THEN <<LogEv("SYNC_SUCCESS", 0)>> ELSE <<>>)
            /\ rd' = RdIdle
            /\ UNCHANGED clIdx
    /\ UNCHANGED <<runVars, script, cfg, registry, cq, source_img, target_envs, overall_success,
                   envIdx, taskSum, miResult, prodCatalog, repositories, repoIdx,
                   tags, tagIdx, stats, local_images, task, exitCode, pg>>

(***************************************************************************)
(* sync_bot main.                                                          *)
(***************************************************************************)
\* store: which of the task's two images the engine holds locally.
NoTask == [repo |-> NoName, tag |-> NoName, existed |-> FALSE, counted |-> "none",
           listed |-> 0, store |-> {}]

\* Steps 1 to 3: configuration check, login (its result is not read), and the
\* repository discovery is entered.
SyncMainStart ==
    /\ pc = "sm_start"
    /\ IF ~(Knows("prod") /\ Knows("dr"))
       THEN /\ exitCode' = 1
            /\ pc' = "sm_done"
            /\ UNCHANGED pg
       ELSE /\ pg' = PgNew("repositories", NoName)
            /\ pc' = "paging"
            /\ UNCHANGED exitCode
    /\ UNCHANGED <<runVars, script, cfg, engineVars, mirrorVars, prodCatalog, repositories, repoIdx,
                   tags, tagIdx, stats, local_images, syResult, task>>

\* Variant: a run without repositories reports success.
SyncMainDiscovered_EmptyIsSuccess ==
    /\ script = "sync" /\ pc = "paging" /\ pg.done /\ pg.kind = "repositories"
    /\ repositories' = pg.all
    /\ pg' = PgIdle
    /\ IF pg.all = <<>>
       THEN /\ exitCode' = 0
            /\ pc' = "sm_done"
            /\ UNCHANGED repoIdx
       ELSE /\ repoIdx' = 1
            /\ pc' = "sm_repo"
            /\ UNCHANGED exitCode
    /\ UNCHANGED <<runVars, script, cfg, engineVars, mirrorVars, prodCatalog, tags, tagIdx, stats,
                   local_images, syResult, task>>

\* Step 3 result and step 4.
SyncMainDiscovered ==
    /\ script = "sync" /\ pc = "paging" /\ pg.done /\ pg.kind = "repositories"
    /\ repositories' = pg.all
    /\ pg' = PgIdle
    /\ IF pg.all = <<>>
       THEN /\ exitCode' = 1
            /\ pc' = "sm_done"
            /\ UNCHANGED repoIdx
       ELSE /\ repoIdx' = 1
            /\ pc' = "sm_repo"
            /\ UNCHANGED exitCode
    /\ UNCHANGED <<runVars, script, cfg, engineVars, mirrorVars, prodCatalog, tags, tagIdx, stats,
                   local_images, syResult, task>>

\* Step 5 loop head: the tag listing of the next repository is entered;
\* after the last repository, step 7 sets the exit status.
SyncMainRepo ==
    /\ pc = "sm_repo"
    /\ IF repoIdx > Len(repositories)
       THEN /\ exitCode' = IF stats.failed_images = 0 THEN 0 ELSE 1
            /\ pc' = "sm_done"
            /\ UNCHANGED pg
       ELSE /\ pg' = PgNew("tags", repositories[repoIdx])
            /\ pc' = "paging"
            /\ UNCHANGED exitCode
    /\ UNCHANGED <<runVars, script, cfg, engineVars, mirrorVars, prodCatalog, repositories, repoIdx,
                   tags, tagIdx, stats, local_images, syResult, task>>

\* Variant: a repository without tags is counted as a failed image.
SyncMainTagsListed_EmptyCountsFailed ==
    /\ script = "sync" /\ pc = "paging" /\ pg.done /\ pg.kind = "tags"
    /\ tags' = pg.all
    /\ pg' = PgIdle
    /\ IF pg.all = <<>>
       THEN /\ repoIdx' = repoIdx + 1
            /\ pc' = "sm_repo"
            /\ stats' = [stats EXCEPT !.failed_images = @ + 1]
            /\ UNCHANGED tagIdx
       ELSE /\ tagIdx' = 1
            /\ pc' = "sm_tag"
            /\ UNCHANGED <<repoIdx, stats>>
    /\ task' = [task EXCEPT !.listed = @ + Len(pg.all)]
    /\ UNCHANGED <<runVars, script, cfg, engineVars, mirrorVars, prodCatalog, repositories,
                   local_images, syResult, exitCode>>

\* The tag listing returned: a repository without tags is passed over.
SyncMainTagsListed ==
    /\ script = "sync" /\ pc = "paging" /\ pg.done /\ pg.kind = "tags"
    /\ tags' = pg.all
    /\ pg' = PgIdle
    /\ IF pg.all = <<>>
       THEN /\ repoIdx' = repoIdx + 1
            /\ pc' = "sm_repo"
            /\ UNCHANGED tagIdx
       ELSE /\ tagIdx' = 1
            /\ pc' = "sm_tag"
            /\ UNCHANGED repoIdx
    /\ task' = [task EXCEPT !.listed = @ + Len(pg.all)]
    /\ UNCHANGED <<runVars, script, cfg, engineVars, mirrorVars, prodCatalog, repositories, stats,
                   local_images, syResult, exitCode>>

\* Inner loop head: the next tag is counted in total_images and sync_image is entered.
SyncMainTag ==
    /\ pc = "sm_tag"
    /\ IF tagIdx > Len(tags)
       THEN /\ repoIdx' = repoIdx + 1
            /\ pc' = "sm_repo"
            /\ UNCHANGED <<trace, stats, local_images, syResult, task>>
       ELSE LET dest == ImageUrl(REGISTRIES["dr"], repositories[repoIdx], tags[tagIdx])
            IN  /\ stats' = [stats EXCEPT !.total_images = @ + 1]
                /\ task' = [repo |-> repositories[repoIdx], tag |-> tags[tagIdx],
                            existed |-> dest \in registry, counted |-> "none",
                            listed |-> task.listed, store |-> {}]
                /\ trace' = <<>>
                /\ local_images' = <<>>
                /\ syResult' = "none"
                /\ pc' = "sy_start"
                /\ UNCHANGED repoIdx
    /\ UNCHANGED <<runVars, script, cfg, registry, rd, cq, mirrorVars, prodCatalog, repositories,
                   tags, tagIdx, exitCode, pg>>

\* Variant: a verified success is added twice.
SyncMainCounted_CountsSuccessTwice ==
    /\ pc = "sy_done"
    /\ \E o \in InspectOutcomes(dr_image) :
         LET counter == IF syResult = "True"
                        THEN IF image_exists_in_registry(o)
                             THEN "successful_images" ELSE "skipped_images"
                        ELSE "failed_images"
         IN  /\ stats' = [stats EXCEPT ![counter] = @ + (IF counter = "successful_images" THEN 2 ELSE 1)]
             /\ task' = [task EXCEPT !.counted = counter, !.store = {}]
             /\ trace' = IF syResult = "True" THEN Append(trace, InspectEv(dr_image, 0, o))
                         ELSE trace
    /\ tagIdx' = tagIdx + 1
    /\ pc' = "sm_tag"
    /\ UNCHANGED <<runVars, script, cfg, registry, rd, cq, mirrorVars, prodCatalog, repositories,
                   repoIdx, tags, local_images, syResult, exitCode, pg>>

\* sync_image returned: the task is counted (a success after a second existence check).
\* The local copies of a counted task are followed no further.
SyncMainCounted ==
    /\ pc = "sy_done"
    /\ \E o \in InspectOutcomes(dr_image) :
         LET counter == IF syResult = "True"
                        THEN IF image_exists_in_registry(o)
                             THEN "successful_images" ELSE "skipped_images"
                        ELSE "failed_images"
         IN  /\ stats' = [stats EXCEPT ![counter] = @ + 1]
             /\ task' = [task EXCEPT !.counted = counter, !.store = {}]
             /\ trace' = IF syResult = "True" THEN Append(trace, InspectEv(dr_image, 0, o))
                         ELSE trace
    /\ tagIdx' = tagIdx + 1
    /\ pc' = "sm_tag"
    /\ UNCHANGED <<runVars, script, cfg, registry, rd, cq, mirrorVars, prodCatalog, repositories,
                   repoIdx, tags, local_images, syResult, exitCode, pg>>

(***************************************************************************)
(* Specification of one mirror_image call on arbitrary arguments.          *)
(***************************************************************************)
\* No mirror run: the variables of bananna_bot main at rest.
TokensInUse == [env \in DOMAIN REGISTRIES |-> <<"secret">>]

RunIdle ==
    /\ catalog = <<>>
    /\ tokens = TokensInUse
    /\ taskIdx = 0
    /\ run = [total_images |-> 0, successful_images |-> 0, failed_images |-> 0,
              login |-> "none"]

SyncIdle ==
    /\ prodCatalog = <<>>
    /\ repositories = <<>>
    /\ repoIdx = 0
    /\ tags = <<>>
    /\ tagIdx = 0
    /\ stats = [total_images |-> 0, successful_images |-> 0, failed_images |-> 0,
                skipped_images |-> 0]
    /\ local_images = <<>>
    /\ syResult = "none"
    /\ task = NoTask
    /\ exitCode = -1

MirrorIdle ==
    /\ source_img = <<>>
    /\ target_envs = <<>>
    /\ overall_success = TRUE
    /\ envIdx = 1
    /\ clIdx = 0
    /\ taskSum = NoTaskSum
    /\ miResult = "none"

\* The versioned destination references a mirror_image call can touch.
MirrorDestinations(src, envs) ==
    IF PathParses(src)
    THEN {get_destination_image_path(src, REGISTRIES[envs[i]]).dest_img :
            i \in {j \in 1..Len(envs) : Knows(envs[j])}}
    ELSE {}

InitMirrorImage ==
    /\ script = "mirror_image"
    /\ RunIdle
    /\ cfg \in Configs
    /\ pc = "mi_start"
    /\ source_img \in SourceImages
    /\ target_envs \in TargetLists
    /\ registry \in SUBSET MirrorDestinations(source_img, target_envs)
    /\ trace = <<>>
    /\ rd = RdIdle
    /\ cq = CqIdle
    /\ overall_success = TRUE
    /\ envIdx = 1
    /\ clIdx = 0
    /\ taskSum = NoTaskSum
    /\ miResult = "none"
    /\ SyncIdle
    /\ pg = PgIdle

NextMirrorImage ==
    \/ MirrorImageStart
    \/ MirrorImagePulled
    \/ MirrorImageEnv
    \/ MirrorImageTagged
    \/ MirrorImageProvisioned
    \/ MirrorImagePushed
    \/ MirrorImageLatestTagged
    \/ MirrorImageLatestPushed
    \/ MirrorImageCleanup
    \/ MirrorImageCleanupLoop
    \/ RunDockerStep
    \/ CreateQuayRepoStep

SpecMirrorImage == InitMirrorImage /\ [][NextMirrorImage]_vars

(***************************************************************************)
(* Specification of the bulk-sync run (sync_bot main).                     *)
(***************************************************************************)
RepoName(i) == <<"repo", i>>
TagName(j) == <<"tag", j>>

RECURSIVE SumTo(_, _)
SumTo(count, n) == IF n = 0 THEN 0 ELSE count[n] + SumTo(count, n - 1)

\* The source registry holds up to MaxImages repositories and up to MaxImages
\* tags in all (a repository can be empty).
Catalogs ==
    UNION { { [i \in 1..n |-> [name |-> RepoName(i),
                               tags |-> [j \in 1..count[i] |-> TagName(j)]]] :
                count \in {c \in [1..n -> 0..MaxImages] : SumTo(c, n) <= MaxImages} } :
            n \in 0..MaxImages }

\* The bulk sync under configuration switches config and API tokens api_tokens.
InitSyncOn(config, api_tokens) ==
    /\ script = "sync"
    /\ catalog = <<>>
    /\ tokens = api_tokens
    /\ taskIdx = 0
    /\ run = [total_images |-> 0, successful_images |-> 0, failed_images |-> 0,
              login |-> "none"]
    /\ cfg = config
    /\ pc = "sm_start"
    /\ prodCatalog \in Catalogs
    /\ registry \in SUBSET UNION { { ImageUrl(REGISTRIES["dr"], prodCatalog[i].name, t) :
                                       t \in {prodCatalog[i].tags[j] :
                                                j \in DOMAIN prodCatalog[i].tags} } :
                                   i \in DOMAIN prodCatalog }
    /\ trace = <<>>
    /\ rd = RdIdle
    /\ cq = CqIdle
    /\ MirrorIdle
    /\ repositories = <<>>
    /\ repoIdx = 0
    /\ tags = <<>>
    /\ tagIdx = 0
    /\ stats = [total_images |-> 0, successful_images |-> 0, failed_images |-> 0,
                skipped_images |-> 0]
    /\ local_images = <<>>
    /\ syResult = "none"
    /\ task = NoTask
    /\ exitCode = -1
    /\ pg = PgIdle

InitSyncWith(config) == InitSyncOn(config, TokensInUse)

InitSync == InitSyncWith(DefaultConfig)

\* The run with continue_on_error switched off in the configuration module.
InitSyncStopOnError == InitSyncWith([DefaultConfig EXCEPT !.continue_on_error = FALSE])

NextSync ==
    \/ SyncMainStart
    \/ SyncMainDiscovered
    \/ SyncMainRepo
    \/ SyncMainTagsListed
    \/ SyncMainTag
    \/ SyncMainCounted
    \/ SyncImageStart
    \/ SyncImagePulled
    \/ SyncImageTagged
    \/ SyncImagePushed
    \/ SyncImageCleanupLoop
    \/ PgRequest
    \/ PgProcess
    \/ RunDockerStep

SpecSync == InitSync /\ [][NextSync]_vars

SpecSyncStopOnError == InitSyncStopOnError /\ [][NextSync]_vars

(***************************************************************************)
(* Specification of one listing call against any management API.           *)
(***************************************************************************)
InitPaging ==
    /\ script = "paging"
    /\ RunIdle
    /\ cfg = DefaultConfig
    /\ pc = "paging"
    /\ pg \in {PgNew("repositories", NoName), PgNew("tags", RepoName(1))}
    /\ registry = {}
    /\ trace = <<>>
    /\ rd = RdIdle
    /\ cq = CqIdle
    /\ MirrorIdle
    /\ SyncIdle

NextPaging == PgRequest \/ PgProcess

SpecPaging == InitPaging /\ [][NextPaging]_vars

\* The loop runs whenever it can: the script is the only process.
FairSpecPaging == SpecPaging /\ WF_vars(NextPaging)

(***************************************************************************)
(* Specification of one run_docker call on its own, every outcome explored.*)
(***************************************************************************)
SomeDest == get_destination_image_path(SrcConfigured, REGISTRIES["prod"]).dest_img

EngineCommands ==
    { [op |-> "pull", args |-> <<SrcConfigured>>],
      [op |-> "tag", args |-> <<SrcConfigured, SomeDest>>],
      [op |-> "push", args |-> <<SomeDest>>],
      [op |-> "rmi", args |-> <<SomeDest>>],
      [op |-> "rmi -f", args |-> <<SomeDest>>] }

InitRunDocker ==
    /\ script = "run_docker"
    /\ RunIdle
    /\ cfg = DefaultConfig
    /\ pc = "run_docker"
    /\ \E c \in EngineCommands : rd = RdNew(c.op, c.args, "caller")
    /\ registry \in SUBSET {SomeDest}
    /\ trace = <<>>
    /\ cq = CqIdle
    /\ MirrorIdle
    /\ SyncIdle
    /\ pg = PgIdle

SpecRunDocker == InitRunDocker /\ [][RunDockerStep]_vars

(***************************************************************************)
(* Specification of one create_quay_repo call on its own, every answer     *)
(* explored.                                                               *)
(***************************************************************************)
InitCreateQuayRepo ==
    /\ script = "create_quay_repo"
    /\ RunIdle
    /\ cfg = DefaultConfig
    /\ pc = "create_quay_repo"
    /\ \E src \in {SrcConfigured, SrcOtherProject}, env \in DOMAIN REGISTRIES :
         cq = CqNew(get_destination_image_path(src, REGISTRIES[env]).repo_path, "none")
    /\ registry = {}
    /\ trace = <<>>
    /\ rd = RdIdle
    /\ MirrorIdle
    /\ SyncIdle
    /\ pg = PgIdle

SpecCreateQuayRepo == InitCreateQuayRepo /\ [][CreateQuayRepoStep]_vars

(***************************************************************************)
(* bananna_bot main: the mirror run over IMAGES_TO_MIRROR.                 *)
(***************************************************************************)
\* str.upper() on an environment name
Upper(env) ==
    CASE env = "prod" -> "PROD"
      [] env = "dr" -> "DR"
      [] env = "uat" -> "UAT"
      [] OTHER -> env

\* f"YOUR_{env.upper()}_API_TOKEN_HERE"
Placeholder(env) == <<"YOUR_", Upper(env), "_API_TOKEN_HERE">>

\* An api_token value is a string as its parts, "" being <<>>, or None.
PyNone == <<"(None)">>

TokenValues == {PyNone, <<>>, <<"secret">>} \cup {Placeholder(env) : env \in DOMAIN REGISTRIES}

\* config["api_token"] in [None, "", f"YOUR_{env.upper()}_API_TOKEN_HERE"]
TokenMissing(env, token) == token = PyNone \/ token = <<>> \/ token = Placeholder(env)

\* validate_config(): the issues found, as the set of their kinds and subjects
validate_config(images, api_tokens) ==
    {<<"token", env>> : env \in {e \in DOMAIN REGISTRIES : TokenMissing(e, api_tokens[e])}}
    \cup (IF images = <<>> THEN {<<"no images", 0>>} ELSE {})
    \cup {<<"no targets", i>> : i \in {j \in DOMAIN images : images[j].targets = <<>>}}
    \cup {<<"source not allowed", i>> :
            i \in {j \in DOMAIN images : ~SourceAuthorized(images[j].source)}}

\* Step 6: the final mirror status
\* Variant: the run always reports 0.
FinalStatus_AlwaysZero(counters) == 0

FinalStatus(counters) ==
    IF counters.successful_images = counters.total_images THEN 0 ELSE 1

\* Steps 1 to 3: configuration check, login (its result is not read), counters.
MirrorMainStart ==
    /\ pc = "mm_start"
    /\ IF validate_config(catalog, tokens) # {}
       THEN /\ exitCode' = 1
            /\ pc' = "mm_done"
            /\ UNCHANGED <<taskIdx, run>>
       ELSE /\ \E l \in {"ok", "failed"} :
                 run' = [run EXCEPT !.login = l, !.total_images = Len(catalog)]
            /\ taskIdx' = 1
            /\ pc' = "mm_task"
            /\ UNCHANGED exitCode
    /\ UNCHANGED <<script, cfg, engineVars, mirrorVars, prodCatalog, repositories, repoIdx,
                   tags, tagIdx, stats, local_images, syResult, task, pg, catalog, tokens>>

\* Step 4 loop head: mirror_image is entered for the next image; after the
\* last one, steps 5 and 6.
MirrorMainTask ==
    /\ pc = "mm_task"
    /\ IF taskIdx > Len(catalog)
       THEN /\ exitCode' = FinalStatus(run)
            /\ pc' = "mm_done"
            /\ UNCHANGED <<trace, mirrorVars>>
       ELSE /\ source_img' = catalog[taskIdx].source
            /\ target_envs' = catalog[taskIdx].targets
            /\ overall_success' = TRUE
            /\ envIdx' = 1
            /\ clIdx' = 0
            /\ taskSum' = NoTaskSum
            /\ miResult' = "none"
            /\ trace' = <<>>
            /\ pc' = "mi_start"
            /\ UNCHANGED exitCode
    /\ UNCHANGED <<script, cfg, registry, rd, cq, prodCatalog, repositories, repoIdx,
                   tags, tagIdx, stats, local_images, syResult, task, pg, runVars>>

\* Variant: a failed image never ends the loop.
AbortsRun_Never(result) == FALSE

\* Variant: with continue_on_error disabled the loop ends after any image.
AbortsRun_OnAnyResult(result) == ~cfg.continue_on_error

\* "if not OPERATION_CONFIG['continue_on_error']: break", in the else branch
\* and in the except branch alike
AbortsRun(result) == result # "True" /\ ~cfg.continue_on_error

\* Variant: only a returned False is counted as failed.
CounterOf_RaisedUncounted(result) ==
    IF result # "False" THEN "successful_images" ELSE "failed_images"

\* "if success: successful_images += 1 / else: failed_images += 1", and
\* "except Exception: failed_images += 1"
CounterOf(result) == IF result = "True" THEN "successful_images" ELSE "failed_images"

\* mirror_image returned or raised: the image is counted; a failure with
\* continue_on_error disabled breaks out of the loop to steps 5 and 6.  The
\* frame of the finished call (its locals and its log) is gone afterwards.
MirrorMainCounted ==
    /\ script = "mirror_main"
    /\ pc = "mi_done"
    /\ LET counted == [run EXCEPT ![CounterOf(miResult)] = @ + 1]
       IN  /\ run' = counted
           /\ IF AbortsRun(miResult)
              THEN /\ exitCode' = FinalStatus(counted)
                   /\ pc' = "mm_done"
                   /\ UNCHANGED taskIdx
              ELSE /\ taskIdx' = taskIdx + 1
                   /\ pc' = "mm_task"
                   /\ UNCHANGED exitCode
    /\ source_img' = <<>>
    /\ target_envs' = <<>>
    /\ overall_success' = TRUE
    /\ envIdx' = 1
    /\ clIdx' = 0
    /\ taskSum' = NoTaskSum
    /\ miResult' = "none"
    /\ trace' = <<>>
    /\ rd' = RdIdle
    /\ cq' = CqIdle
    /\ UNCHANGED <<script, cfg, registry, prodCatalog, repositories, repoIdx,
                   tags, tagIdx, stats, local_images, syResult, task, pg, catalog, tokens>>

(***************************************************************************)
(* Specification of the mirror run (bananna_bot main).                     *)
(***************************************************************************)
ImageNames == <<"image-1", "image-2", "image-3", "image-4", "image-5", "image-6", "image-7">>

\* asia.gcr.io/tsg1-apigee-anthos-prod/image-i:v1 -> ["prod"]
PlainTask(i) ==
    [source |-> << <<"asia.gcr.io">>, <<"tsg1-apigee-anthos-prod">>, <<ImageNames[i], "v1">> >>,
     targets |-> <<"prod">>]

\* The entries an image of the catalog can be instead: two targets, a target
\* that REGISTRIES does not know, no target, a source without a tag, a source
\* of a project that is not allowed.
TaskVariants(i) ==
    { [PlainTask(i) EXCEPT !.targets = <<"prod", "dr">>],
      [PlainTask(i) EXCEPT !.targets = <<"qa">>],
      [PlainTask(i) EXCEPT !.targets = <<>>],
      [PlainTask(i) EXCEPT !.source =
          << <<"asia.gcr.io">>, <<"tsg1-apigee-anthos-prod">>, <<ImageNames[i]>> >>],
      [PlainTask(i) EXCEPT !.source =
          << <<"asia.gcr.io">>, <<"other-project">>, <<ImageNames[i], "v1">> >>] }

\* IMAGES_TO_MIRROR: up to MaxTasks images with distinct sources, the first
\* of them plain or not.
MirrorCatalogs ==
    UNION { {[i \in 1..n |-> PlainTask(i)]}
            \cup { [i \in 1..n |-> IF i = 1 THEN v ELSE PlainTask(i)] : v \in TaskVariants(1) }
            : n \in 0..MaxTasks }

InitMirrorMain ==
    /\ script = "mirror_main"
    /\ cfg \in {DefaultConfig,
                 [DefaultConfig EXCEPT !.continue_on_error = FALSE],
                 [DefaultConfig EXCEPT !.cleanup_local_images = TRUE]}
    /\ pc = "mm_start"
    /\ catalog \in MirrorCatalogs
    /\ cfg.cleanup_local_images => Len(catalog) <= 1
    /\ tokens \in {TokensInUse} \cup
                  {[TokensInUse EXCEPT ![env] = t] : env \in {"uat"}, t \in TokenValues}
    /\ taskIdx = 0
    /\ run = [total_images |-> 0, successful_images |-> 0, failed_images |-> 0,
              login |-> "none"]
    /\ registry \in {{},
                      { get_destination_image_path(catalog[i].source, REGISTRIES["prod"]).dest_img :
                          i \in {j \in DOMAIN catalog : PathParses(catalog[j].source)} }}
    /\ trace = <<>>
    /\ rd = RdIdle
    /\ cq = CqIdle
    /\ MirrorIdle
    /\ SyncIdle
    /\ pg = PgIdle

NextMirrorMain ==
    \/ MirrorMainStart
    \/ MirrorMainTask
    \/ MirrorMainCounted
    \/ NextMirrorImage

SpecMirrorMain == InitMirrorMain /\ [][NextMirrorMain]_vars

(***************************************************************************)
(* Both runs with continue_on_error enabled.                               *)
(***************************************************************************)
\* The bulk sync starts with no tag at DR yet.
InitRuns ==
    \/ InitMirrorMain /\ cfg.continue_on_error
    \/ InitSync /\ registry = {}

NextRuns == NextMirrorMain \/ NextSync

SpecRuns == InitRuns /\ [][NextRuns]_vars

(***************************************************************************)
(* __main__ of both scripts: KeyboardInterrupt.  No handler inside main,   *)
(* mirror_image or sync_image catches it ("except Exception" does not), so *)
(* it leaves main from wherever it is raised and ends the process.         *)
(***************************************************************************)
\* Variant: the interrupt is reported like a failed run.
Interrupt_ReportsFailure ==
    /\ script \in {"mirror_main", "sync"}
    /\ pc \notin {"mm_done", "sm_done", "interrupted"}
    /\ pc' = "interrupted"
    /\ exitCode' = 1
    /\ UNCHANGED <<script, cfg, engineVars, mirrorVars, prodCatalog, repositories, repoIdx,
                   tags, tagIdx, stats, local_images, syResult, task, pg, runVars>>

\* except KeyboardInterrupt: log USER_STOP, sys.exit(130)
Interrupt ==
    /\ script \in {"mirror_main", "sync"}
    /\ pc \notin {"mm_done", "sm_done", "interrupted"}
    /\ pc' = "interrupted"
    /\ exitCode' = 130
    /\ UNCHANGED <<script, cfg, engineVars, mirrorVars, prodCatalog, repositories, repoIdx,
                   tags, tagIdx, stats, local_images, syResult, task, pg, runVars>>

\* Both runs, interruptible: the mirror run with continue_on_error on an
\* empty PROD and DR, the bulk sync on an empty DR.
InitInterruptibleRuns ==
    \/ InitMirrorMain /\ cfg.continue_on_error /\ tokens = TokensInUse /\ registry = {}
    \/ InitSync /\ registry = {}

NextInterruptibleRuns == NextRuns \/ Interrupt

\* Both runs on empty destinations, the mirror run with continue_on_error
\* enabled or disabled.
InitCountedRuns ==
    \/ InitMirrorMain /\ tokens = TokensInUse /\ registry = {}
    \/ InitSync /\ registry = {}

SpecCountedRuns == InitCountedRuns /\ [][NextRuns]_vars

SpecInterruptibleRuns == InitInterruptibleRuns /\ [][NextInterruptibleRuns]_vars

(***************************************************************************)
(* Both runs under API tokens that are in use, missing or placeholders.    *)
(***************************************************************************)
InitCredentialRuns ==
    \/ InitMirrorMain /\ cfg.continue_on_error /\ registry = {}
    \/ /\ \E t \in {<<"secret">>, Placeholder("prod")} :
             InitSyncOn(DefaultConfig, [TokensInUse EXCEPT !["prod"] = t])
       /\ registry = {}

SpecCredentialRuns == InitCredentialRuns /\ [][NextRuns]_vars

(***************************************************************************)
(* One mirror_image call, the bulk sync and the functions on their own.    *)
(***************************************************************************)
Init ==
    InitMirrorImage \/ InitSync \/ InitPaging \/ InitRunDocker \/ InitCreateQuayRepo

Next ==
    \/ MirrorImageStart
    \/ MirrorImagePulled
    \/ MirrorImageEnv
    \/ MirrorImageTagged
    \/ MirrorImageProvisioned
    \/ MirrorImagePushed
    \/ MirrorImageLatestTagged
    \/ MirrorImageLatestPushed
    \/ MirrorImageCleanup
    \/ MirrorImageCleanupLoop
    \/ SyncMainStart
    \/ SyncMainDiscovered
    \/ SyncMainRepo
    \/ SyncMainTagsListed
    \/ SyncMainTag
    \/ SyncMainCounted
    \/ SyncImageStart
    \/ SyncImagePulled
    \/ SyncImageTagged
    \/ SyncImagePushed
    \/ SyncImageCleanupLoop
    \/ PgRequest
    \/ PgProcess
    \/ RunDockerStep
    \/ CreateQuayRepoStep

Spec == Init /\ [][Next]_vars

(***************************************************************************)
(* Properties.                                                             *)
(***************************************************************************)
\* An execution of the engine command of the run_docker call in progress.
ExecutesCommand == pc = "run_docker" /\ rd'.execs = rd.execs + 1

IsEngineCall(ev, ops) == ev.kind = "call" /\ ev.what \in ops

\* The number of invocations of op recorded in tr
RECURSIVE CountCalls(_, _)
CountCalls(tr, op) ==
    IF tr = <<>> THEN 0
    ELSE (IF IsEngineCall(Head(tr), {op}) THEN 1 ELSE 0) + CountCalls(Tail(tr), op)

\* C1: in the mirror flow the push of a target's versioned destination
\* reference is never executed while that reference exists in the destination
\* registry, whatever the manifest-inspect existence check answered.
C1_NoPushOverExistingTag ==
    [][ (ExecutesCommand /\ rd.op = "push" /\ rd.ret = "mi_pushed")
          => rd.args[1] \notin registry ]_vars

\* A mirror target whose processing starts while its versioned tag exists.
MirrorTargetStartsExisting ==
    /\ pc = "mi_env"
    /\ envIdx <= Len(target_envs)
    /\ Knows(CurEnv)
    /\ PathParses(source_img)
    /\ CurPath.dest_img \in registry

\* A bulk-sync task that starts while its destination tag exists.
SyncTaskStartsExisting == pc = "sy_start" /\ dr_image \in registry

NoTransferCallIn(tr) ==
    \A i \in 1..Len(tr) : ~IsEngineCall(tr[i], {"pull", "tag", "push"})

\* C2: in either flow, a task (mirror_image per target, sync_image per
\* repository/tag) whose destination tag already exists makes no pull, no tag
\* and no push engine call: the task ends at its existence check.  (The events
\* of a mirror target begin at its path construction: the one pull of the
\* source image precedes every target and belongs to none.)
C2_NoTransferWhenTagExists ==
    [][ /\ MirrorTargetStartsExisting
            => /\ envIdx' = envIdx + 1 /\ pc' = "mi_env"
               /\ NoTransferCallIn(trace')
        /\ SyncTaskStartsExisting
            => /\ pc' = "sy_done"
               /\ NoTransferCallIn(trace') ]_vars

\* C3: in the bulk-sync run a task whose destination tag existed when the task
\* started adds one to the skipped statistic and nothing to the succeeded
\* statistic.
C3_ExistingTagCountedSkipped ==
    [][ (pc = "sy_done" /\ task.existed)
          => /\ stats'.skipped_images = stats.skipped_images + 1
             /\ stats'.successful_images = stats.successful_images ]_vars

\* C4: for every run_docker invocation (pull, tag, push, rmi) of both scripts
\* the engine command is executed at most max_retries times, whatever each
\* attempt's outcome (non-zero exit, timeout, other exception).
C4_AttemptsNeverExceedMaxRetries ==
    pc = "run_docker" => rd.execs <= MaxRetries

\* A call that failed on every one of its max_retries attempts.
C4_Witness ==
    /\ pc = "run_docker" /\ rd.done /\ ~rd.result
    /\ rd.execs = MaxRetries
    /\ rd.last.kind \in {"exit", "timeout", "exception"}

\* "not found" in some letter case is part of the stderr text
HasNotFoundPhrase(stderr) ==
    \E i \in 1..Len(stderr) : stderr[i] \in {"not found", "Not Found"}

\* The attempt the code classifies as not found: exit code 1 or 125 with the phrase.
ReportsNotFound(o) == o.kind = "exit" /\ o.code \in {1, 125} /\ HasNotFoundPhrase(o.stderr)

\* C5: in run_docker an attempt classified as not found ends the invocation
\* with failure at that attempt: no further attempt is made and no retry delay
\* follows it (the delays are those of the attempts before it), so a not-found
\* first attempt is the only attempt.
C5_NotFoundEndsInvocation ==
    (pc = "run_docker" /\ ReportsNotFound(rd.last))
        => /\ rd.done /\ ~rd.result
           /\ rd.sleeps = rd.execs - 1
           /\ ~ENABLED RunDockerStep

\* The first attempt is classified not found: one execution, no delay.
C5_Witness ==
    /\ pc = "run_docker" /\ ReportsNotFound(rd.last)
    /\ rd.execs = 1 /\ rd.sleeps = 0 /\ rd.done

\* What follows an attempt that was retried, or was the last one allowed.
RetriedWhileAttemptsRemain ==
    IF rd.execs < MaxRetries
    THEN ~rd.done /\ rd.sleeps = rd.execs
    ELSE rd.done /\ ~rd.result

\* C6 as stated: every non-zero exit whose message contains a "not found"
\* phrase is terminal, for every non-zero exit code; every other non-zero exit
\* is retried.
C6_NotFoundTerminalForEveryCode ==
    (pc = "run_docker" /\ rd.last.kind = "exit")
        => IF HasNotFoundPhrase(rd.last.stderr)
           THEN rd.done /\ ~rd.result
           ELSE RetriedWhileAttemptsRemain

\* C6 amended: a non-zero exit is terminal exactly when its exit code is 1 or
\* 125 and its message contains "not found" in any letter case; every other
\* non-zero exit, the phrase with another exit code included, is retried while
\* attempts remain.
C6_NotFoundTerminalForCodes1And125 ==
    (pc = "run_docker" /\ rd.last.kind = "exit")
        => IF rd.last.code \in {1, 125} /\ HasNotFoundPhrase(rd.last.stderr)
           THEN rd.done /\ ~rd.result /\ rd.sleeps = rd.execs - 1
           ELSE RetriedWhileAttemptsRemain

\* Exit code 2 with the phrase on the first attempt: the call goes on.
C6_Witness ==
    /\ pc = "run_docker" /\ rd.last.kind = "exit"
    /\ rd.last.code = 2 /\ HasNotFoundPhrase(rd.last.stderr)
    /\ rd.execs = 1 /\ ~rd.done

\* The first two '/'-separated segments of the source are an allow-list entry.
FirstTwoSegmentsAllowed(src) ==
    Len(src) >= 2 /\ \E allowed \in ALLOWED_SOURCE_REGISTRIES :
                       allowed[1] = src[1] /\ allowed[2] = src[2]

\* C7: mirror_image returns failure for every source image whose first two
\* '/'-separated segments are not in the allow-list, and makes no engine call
\* (pull, manifest inspect, tag, push, rmi) and no management API call for it.
C7_UnlistedSourceRejectedWithoutCalls ==
    (script = "mirror_image" /\ ~FirstTwoSegmentsAllowed(source_img))
        => /\ pc \in {"mi_start", "mi_done"}
           /\ pc = "mi_done" => miResult = "False"
           /\ \A i \in 1..Len(trace) : trace[i].kind # "call"
           /\ rd = RdIdle /\ cq = CqIdle
           /\ taskSum.pulls = 0

\* An allowed host with a project that is not allowed has been rejected.
C7_Witness ==
    /\ script = "mirror_image" /\ pc = "mi_done"
    /\ source_img = SrcOtherProject
    /\ miResult = "False"
    /\ HasLog(trace, "SOURCE_UNAUTHORIZED")

\* The events of the task show a push reported successful followed by a
\* post-push manifest check that did not report the image.
VerifyReportedAbsence(tr) ==
    \E i \in 1..(Len(tr) - 1) :
        /\ tr[i] = LogEv("SYNC_VERIFYING", 0)
        /\ IsEngineCall(tr[i + 1], {"manifest inspect"})
        /\ tr[i + 1].res # "exit0"

RemovalInvokedFor(tr, image) ==
    \E i \in 1..Len(tr) : IsEngineCall(tr[i], {"rmi -f"}) /\ tr[i].args = <<image>>

\* C8: in bulk sync, once the push is reported successful and the post-push
\* manifest check reports absence, no pull, tag or push is invoked again for
\* the task (one of each was made), and sync_image returns failure after
\* removal has been invoked for the pulled source image and for the
\* destination-tagged image.
C8_VerifyFailureRollsBackAndFails ==
    (script = "sync" /\ VerifyReportedAbsence(trace))
        => /\ CountCalls(trace, "pull") = 1
           /\ CountCalls(trace, "tag") = 1
           /\ CountCalls(trace, "push") = 1
           /\ syResult # "True"
           /\ pc = "sy_done"
                => /\ syResult = "False"
                   /\ RemovalInvokedFor(trace, prod_image)
                   /\ RemovalInvokedFor(trace, dr_image)

\* The push succeeded, the image is in the registry, the check did not see
\* it, and sync_image has returned.
C8_Witness ==
    /\ script = "sync" /\ pc = "sy_done"
    /\ VerifyReportedAbsence(trace)
    /\ dr_image \in registry
    /\ syResult = "False"

\* The named items of the answered pages, in page order.
RECURSIVE NamedItemsOf(_)
NamedItemsOf(responses) ==
    IF responses = <<>> THEN <<>>
    ELSE LET items == Head(responses).items
             named == SelectSeq(items, LAMBDA it : it.name # NoName)
         IN  [i \in 1..Len(named) |-> named[i].name] \o NamedItemsOf(Tail(responses))

IsPage(r) == r.kind = "json"

\* C9: a listing that has ended (within the pages the model keeps exactly)
\* requested pages 1, 2, 3, ... in order, each once; every page before the
\* last was a non-empty page with the more-pages flag true, and the last
\* answer, if a page, is empty or has the flag not true; the result is the
\* named items of the pages in page order.  So pages of sizes 2, 2, 0 give 3
\* requests and 4 items, and a page 1 of 2 items with the flag false gives
\* 1 request and 2 items.
C9_PagesInOrderUntilFirstStop ==
    (pc = "paging" /\ pg.done /\ pg.page < MaxPage)
        => LET k == Len(pg.requests) IN
           /\ k >= 1
           /\ pg.requests = [i \in 1..k |-> i]
           /\ Len(pg.responses) = k
           /\ \A i \in 1..(k - 1) :
                /\ IsPage(pg.responses[i])
                /\ pg.responses[i].items # <<>>
                /\ pg.responses[i].more = "true"
           /\ IsPage(pg.responses[k])
                => pg.responses[k].items = <<>> \/ pg.responses[k].more # "true"
           /\ pg.all = NamedItemsOf(pg.responses)
           /\ (/\ k >= 3
               /\ \A i \in 1..3 : IsPage(pg.responses[i])
               /\ [i \in 1..3 |-> Len(pg.responses[i].items)] = <<2, 2, 0>>
               /\ \A i \in 1..2 : \A j \in 1..2 : pg.responses[i].items[j].name # NoName)
                => k = 3 /\ Len(pg.all) = 4
           /\ (/\ IsPage(pg.responses[1])
               /\ Len(pg.responses[1].items) = 2
               /\ pg.responses[1].more = "false"
               /\ \A j \in 1..2 : pg.responses[1].items[j].name # NoName)
                => k = 1 /\ Len(pg.all) = 2

\* Pages of sizes 2, 2, 0: three requests, four items.
C9_Witness ==
    /\ pc = "paging" /\ pg.done
    /\ pg.requests = <<1, 2, 3>>
    /\ [i \in 1..3 |-> Len(pg.responses[i].items)] = <<2, 2, 0>>
    /\ Len(pg.all) = 4

\* C10: pagination in list_all_repositories and list_all_tags terminates for
\* every behaviour of the management API, one that answers every request with
\* a non-empty page and the more-pages flag true included.
C10_PaginationTerminates == <>(pg.done)

\* Every target of the task's list was processed and was skipped or got both pushes.
EveryTargetReached == envIdx > Len(target_envs) /\ taskSum.allOk

\* C11 as stated: mirror_image returns, and its result is success exactly
\* when every target of its list reached success (versioned and latest push
\* both succeeded) or skip.
C11_SuccessIffEveryTargetReached ==
    pc = "mi_done" =>
        /\ miResult \in {"True", "False"}
        /\ miResult = "True" <=> EveryTargetReached

\* C11 amended: whenever mirror_image returns, its result is success exactly
\* when the source was accepted, the source pull succeeded and every target
\* reached success or skip; a failed pull or a rejected source makes the
\* result failure whatever the targets did, and a source whose last segment
\* is not name:tag makes the call raise instead of returning.
C11_SuccessIffPulledAndEveryTargetReached ==
    pc = "mi_done" =>
        /\ miResult \in {"True", "False", "raised"}
        /\ miResult = "raised" => ~PathParses(source_img)
        /\ miResult # "raised" =>
              (miResult = "True" <=>
                 SourceAuthorized(source_img) /\ taskSum.pullOk /\ EveryTargetReached)

\* C11 witness: a task of two targets returned success after the last target
\* got its latest push.
C11_Witness ==
    /\ pc = "mi_done"
    /\ miResult = "True"
    /\ Len(target_envs) = 2
    /\ taskSum.pullOk
    /\ HasLog(trace, "LATEST_UPDATED")

\* C12: in a mirror run with continue_on_error disabled the first image that
\* fails ends the run: the exit status is 1, the images before it are the
\* succeeded ones, it is the only failed one, the images after it are counted
\* neither as succeeded nor as failed, and no step follows the end of the run.
C12_FirstFailureHaltsMirrorRun ==
    /\ [](script = "mirror_main" /\ ~cfg.continue_on_error /\ run.failed_images > 0 =>
            /\ pc = "mm_done"
            /\ exitCode = 1
            /\ taskIdx \in 1..Len(catalog)
            /\ run.successful_images = taskIdx - 1
            /\ run.failed_images = 1
            /\ run.total_images - run.successful_images - run.failed_images
                 = Len(catalog) - taskIdx)
    /\ [][pc # "mm_done"]_vars

\* C12 witness: the second of three images failed, one succeeded, one was left.
C12_Witness ==
    /\ script = "mirror_main" /\ ~cfg.continue_on_error
    /\ pc = "mm_done"
    /\ Len(catalog) = 3
    /\ taskIdx = 2
    /\ run.successful_images = 1
    /\ run.failed_images = 1

\* C13: in a bulk-sync run with continue_on_error disabled no (repository,
\* tag) task is entered once a task has been counted as failed.
C13_FirstFailureHaltsSyncRun ==
    [][script = "sync" /\ ~cfg.continue_on_error /\ stats.failed_images > 0
         => pc' # "sy_start"]_vars

\* C14: with continue_on_error enabled, a run that got past its start-up
\* checks (mirror: validate_config; bulk sync: a non-empty repository
\* listing) ends only after every task of its work list was attempted and
\* counted, with exit status 0 exactly when every task succeeded and 1 exactly
\* when some task failed.
C14_AllTasksRunAndStatusIsAggregate ==
    cfg.continue_on_error =>
      /\ script = "mirror_main" /\ pc = "mm_done" /\ validate_config(catalog, tokens) = {} =>
            /\ taskIdx = Len(catalog) + 1
            /\ run.successful_images + run.failed_images = Len(catalog)
            /\ exitCode = 0 <=> run.successful_images = Len(catalog)
            /\ exitCode = 1 <=> run.failed_images > 0
      /\ script = "sync" /\ pc = "sm_done" /\ repositories # <<>> =>
            /\ repoIdx = Len(repositories) + 1
            /\ stats.total_images = task.listed
            /\ stats.successful_images + stats.skipped_images + stats.failed_images
                 = stats.total_images
            /\ exitCode = 0 <=> stats.failed_images = 0
            /\ exitCode = 1 <=> stats.failed_images > 0

\* C14 witness: a mirror run of three images ended with two succeeded and one
\* failed.
C14_Witness ==
    /\ script = "mirror_main" /\ cfg.continue_on_error
    /\ pc = "mm_done"
    /\ Len(catalog) = 3
    /\ run.successful_images = 2
    /\ run.failed_images = 1
    /\ exitCode = 1

\* An attempt that failed without the not-found classification.
TransientFailure(o) == o.kind \in {"exit", "timeout", "exception"} /\ ~ReportsNotFound(o)

\* C15: in run_docker with max_retries = N, every transient failure before
\* attempt N is followed by a delay and a further attempt, and when attempt N
\* then succeeds after N-1 such failures the call ends with exactly N attempts
\* made and returns success; the mirror's push step then logs PUSH_SUCCESS.
C15_SuccessOnLastAttemptAfterTransientFailures ==
    /\ [](pc = "run_docker" /\ rd.last.kind = "ok" /\ rd.sleeps = MaxRetries - 1 =>
            rd.done /\ rd.result /\ rd.execs = MaxRetries)
    /\ [][pc = "run_docker" /\ rd'.execs = rd.execs + 1 /\ TransientFailure(rd'.last)
            /\ rd'.execs < MaxRetries
          => ~rd'.done /\ rd'.sleeps = rd.sleeps + 1 /\ rd'.sleeps = rd'.execs]_vars
    /\ [][Returned("mi_pushed") /\ rd.result /\ rd.execs = MaxRetries
          => HasLog(trace', "PUSH_SUCCESS")]_vars

\* C15 witness: a push of the mirror flow returned success on attempt
\* max_retries, after max_retries - 1 retried attempts.
C15_Witness ==
    /\ Returned("mi_pushed")
    /\ rd.op = "push"
    /\ rd.result
    /\ rd.execs = MaxRetries
    /\ rd.sleeps = MaxRetries - 1

\* A create_quay_repo call is under way or recorded for the current target.
ProvisioningCalled ==
    \/ pc = "create_quay_repo"
    \/ cq # CqIdle
    \/ \E i \in 1..Len(trace) : trace[i].kind = "call" /\ trace[i].what = "create_quay_repo"
    \/ HasLog(trace, "REPO_PREP_FAILED")

\* C16: with create_repos_if_not_exists disabled, mirror_image never calls
\* create_quay_repo; a target whose tag step succeeded gets the push of its
\* versioned reference as the very next call; and the target's outcome follows
\* the engine's answers alone: a failed push fails the task, and after both
\* pushes succeeded the target is reached and overall_success is left as it was.
C16_NoProvisioningWhenDisabled ==
    /\ [](~cfg.create_repos_if_not_exists => ~ProvisioningCalled)
    /\ [][~cfg.create_repos_if_not_exists /\ Returned("mi_tagged") /\ rd.result
          => /\ pc' = "run_docker"
             /\ rd' = RdNew("push", <<CurPath.dest_img>>, "mi_pushed")
             /\ trace' = Append(trace, CallEv("push", <<CurPath.dest_img>>, envIdx))]_vars
    /\ [][~cfg.create_repos_if_not_exists /\ Returned("mi_pushed") /\ ~rd.result
          => ~overall_success' /\ ~TargetReached(trace')]_vars
    /\ [][~cfg.create_repos_if_not_exists /\ Returned("mi_lpushed") /\ rd.result
          => overall_success' = overall_success /\ TargetReached(trace')]_vars

\* C16 witness: with the switch off a target was tagged and its push returned.
C16_Witness ==
    /\ ~cfg.create_repos_if_not_exists
    /\ Returned("mi_pushed")
    /\ rd.op = "push"

\* The status of an answer: the last line curl printed.
StatusOf(o) == IF o.kind = "http" /\ o.stdout # <<>> THEN o.stdout[Len(o.stdout)] ELSE "none"

\* The already-exists phrase, in some letter case, is in the lines before the status.
BodyHasExistsPhrase(o) ==
    \E i \in 1..(Len(o.stdout) - 1) :
        o.stdout[i] \in {"Repository already exists", "repository already exists"}

AuthRefused(o) == StatusOf(o) \in {"401", "403"}

Accepted(o) == StatusOf(o) = "201" \/ (StatusOf(o) = "400" /\ BodyHasExistsPhrase(o))

\* A 400 without the phrase, an unexpected status, or a timeout.
RetryableAnswer(o) ==
    \/ o.kind = "timeout"
    \/ StatusOf(o) = "400" /\ ~BodyHasExistsPhrase(o)
    \/ o.kind = "http" /\ StatusOf(o) \notin {"201", "400", "401", "403"}

\* A creation request is issued in this step.
CqRequests == cq'.execs = cq.execs + 1 /\ cq'.seen = Append(cq.seen, cq'.last)

\* C17: an answer of 401 or 403 is the last answer of its create_quay_repo
\* call: the call is over with result failure, no delay follows that request
\* (delays = earlier requests), and no request follows it, whatever the number
\* of attempts left.
C17_AuthRefusalIsTerminal ==
    /\ [](\A i \in 1..Len(cq.seen) :
             AuthRefused(cq.seen[i]) =>
                 /\ i = Len(cq.seen)
                 /\ cq.done /\ ~cq.result
                 /\ cq.sleeps = i - 1)
    /\ [][AuthRefused(cq.last) => ~CqRequests /\ cq'.sleeps # cq.sleeps + 1]_vars

\* C17 witness: the second request was answered 403 with one attempt left.
C17_Witness ==
    /\ pc = "create_quay_repo" /\ cq.done
    /\ Len(cq.seen) = 2 /\ MaxRetries > 2
    /\ StatusOf(cq.last) = "403"

\* C18: an answer of 201, or of 400 with the already-exists phrase, is the
\* last answer of its call and makes the result success; the result is success
\* only when the call ended on such an answer.
C18_SuccessExactlyOnCreatedOrExists ==
    /\ [](\A i \in 1..Len(cq.seen) :
             Accepted(cq.seen[i]) => i = Len(cq.seen) /\ cq.done /\ cq.result)
    /\ [](cq.result => cq.done /\ cq.seen # <<>> /\ Accepted(cq.last))
    /\ [][cq.seen # <<>> /\ Accepted(cq.last) => ~CqRequests]_vars

\* C18 witness: the second request was answered 400 "already exists".
C18_Witness ==
    /\ pc = "create_quay_repo" /\ cq.done /\ cq.result
    /\ Len(cq.seen) = 2
    /\ StatusOf(cq.last) = "400" /\ BodyHasExistsPhrase(cq.last)

\* C19: every attempt of create_quay_repo issues one request, there are never
\* more than max_retries of them; a 400 without the phrase, an unexpected
\* status or a timeout before the last attempt is followed by a delay and the
\* call goes on; and once max_retries attempts ended that way the call is over
\* with result failure.
C19_OneRequestPerAttemptUntilExhausted ==
    /\ [](/\ cq.execs = Len(cq.seen)
          /\ cq.execs <= MaxRetries
          /\ cq.attempt <= cq.execs /\ cq.execs <= cq.attempt + 1)
    /\ [][CqRequests /\ RetryableAnswer(cq'.last) /\ cq'.execs < MaxRetries
          => ~cq'.done /\ cq'.sleeps = cq.sleeps + 1 /\ cq'.attempt = cq.attempt + 1]_vars
    /\ [](Len(cq.seen) = MaxRetries /\ (\A i \in 1..MaxRetries : RetryableAnswer(cq.seen[i]))
            => cq.done /\ ~cq.result)

\* C19 witness: a bad request, a 500 and a timeout used up the three attempts.
C19_Witness ==
    /\ pc = "create_quay_repo" /\ cq.done /\ ~cq.result
    /\ cq.execs = MaxRetries
    /\ \E i, j, k \in 1..MaxRetries :
          /\ StatusOf(cq.seen[i]) = "400"
          /\ StatusOf(cq.seen[j]) = "500"
          /\ cq.seen[k].kind = "timeout"

\* The task in progress is one of targets [prod, dr] whose pull succeeded.
ProdDrTaskPulled ==
    /\ script = "mirror_main"
    /\ target_envs = <<"prod", "dr">>
    /\ PathParses(source_img)
    /\ taskSum.pullOk

\* The positions in tr of the invocations of push for ref
PushesOf(tr, ref) ==
    {i \in 1..Len(tr) : IsEngineCall(tr[i], {"push"}) /\ tr[i].args = <<ref>>}

\* No step of the current target failed, provisioning included.
NoStepFailed(tr) ==
    \A code \in {"TAG_FAILED", "REPO_PREP_FAILED", "PUSH_FAILED", "LATEST_TAG_FAILED",
                  "LATEST_PUSH_FAILED"} : ~HasLog(tr, code)

\* C20: in a mirror run, for a task of targets [prod, dr] whose pull
\* succeeded: while prod is processed with its versioned tag in the prod
\* registry no push is invoked; when dr is processed, its tag absent and every
\* step for it successful, dr got a push of the versioned reference and after
\* it a push of the latest alias; and when both targets ended skipped or
\* successful the task returns success and successful_images grows by exactly 1.
C20_ProdSkippedDrMirroredCountsOnce ==
    /\ [][ProdDrTaskPulled /\ envIdx = 1 /\ pc \in {"mi_env", "run_docker", "create_quay_repo"}
            /\ CurPath.dest_img \in registry /\ PushesOf(trace, CurPath.dest_img) = {}
          => ~(envIdx' = 1 /\ \E i \in 1..Len(trace') : IsEngineCall(trace'[i], {"push"}))]_vars
    /\ [][ProdDrTaskPulled /\ envIdx = 2 /\ Returned("mi_lpushed") /\ rd.result
            /\ NoStepFailed(trace)
          => \E i \in PushesOf(trace', CurPath.dest_img) :
               \E j \in PushesOf(trace', CurPath.latest_img) : i < j]_vars
    /\ [][ProdDrTaskPulled /\ pc = "mi_done" /\ EveryTargetReached
          => /\ miResult = "True"
             /\ run'.successful_images = run.successful_images + 1
             /\ run'.failed_images = run.failed_images]_vars

\* C21: an interrupt ends either run where it stands: the process exits with
\* 130 and with no other code than 130, no step follows (no further task, no
\* final statistics, no rollback), and the interrupt itself changes neither
\* the counters nor the local images nor the registries nor the calls made.
C21_InterruptExits130WithoutFurtherWork ==
    /\ [](pc = "interrupted" <=> exitCode = 130)
    /\ [][pc # "interrupted"]_vars
    /\ [][pc' = "interrupted" =>
            /\ pc \notin {"mm_done", "sm_done"}
            /\ UNCHANGED <<run, stats, taskIdx, repoIdx, tagIdx, local_images, registry,
                           trace, rd, cq>>]_vars

\* C21 witness: a mirror run of three images was interrupted inside its second
\* task, after the first was counted.
C21_Witness ==
    /\ script = "mirror_main"
    /\ pc = "interrupted"
    /\ Len(catalog) = 3 /\ taskIdx = 2
    /\ run.successful_images + run.failed_images = 1
    /\ trace # <<>>
    /\ exitCode = 130

\* Some environment's API token is missing or the placeholder.
CredentialMissing == \E env \in DOMAIN REGISTRIES : TokenMissing(env, tokens[env])

\* C22: in the mirror run and in the bulk-sync run alike, with the API token
\* of some environment missing or a placeholder no login, no engine call, no
\* API request and no task ever happens, and the run ends with exit code 1.
C22_MissingCredentialEndsRunBeforeAnyCall ==
    script \in {"mirror_main", "sync"} /\ CredentialMissing =>
        /\ pc \in {"mm_done", "sm_done"} => exitCode = 1
        /\ run.login = "none"
        /\ trace = <<>> /\ rd = RdIdle /\ cq = CqIdle /\ pg.requests = <<>>
        /\ taskIdx = 0 /\ stats.total_images = 0

\* C23: in bulk sync, whenever sync_image has returned after a successful
\* pull (on success, or on a failure at tag, push or verification), neither
\* the pulled source image nor the destination-tagged image is in the local
\* image store, whatever the removal commands reported.
C23_NoLocalCopyAfterSyncImage ==
    (script = "sync" /\ pc = "sy_done" /\ local_images # <<>>)
        => /\ prod_image \notin task.store
           /\ dr_image \notin task.store


\* create_quay_repo logged a 401 or 403 refusal for the target whose events are tr.
RefusalLogged(tr) == HasLog(tr, "REPO_AUTH_FAILED") \/ HasLog(tr, "REPO_PERMISSION_DENIED")

\* C24: when the provisioning call for a target ended with 401 or 403 (here:
\* for the last target the task processed), mirror_image returns failure, so
\* that main counts the task as failed, however the login ended.
C24_RefusedProvisioningFailsTask ==
    (script = "mirror_main" /\ pc = "mi_done" /\ RefusalLogged(trace))
        => miResult = "False"


\* The last segment of the source reference splits into name and tag.
LastSegmentSplits(src) == Len(src[Len(src)]) = 2

C26_EmptyTargetListIsNoOp ==
    (script = "mirror_image" /\ target_envs = <<>>)
        => /\ \A i \in 1..Len(trace) : trace[i].kind # "call"
           /\ pc \notin {"run_docker", "create_quay_repo"}
           /\ miResult # "False"


IsLatest(ref) == ref.tag = "latest"

\* Event i of tr is the tag or the push of a latest alias.
LatestCallAt(tr, i) ==
    /\ tr[i].kind = "call"
    /\ \/ tr[i].what = "tag" /\ IsLatest(tr[i].args[2])
       \/ tr[i].what = "push" /\ IsLatest(tr[i].args[1])

\* Before event i of tr, the versioned push of the same target was invoked and
\* reported successful.
VersionedPushSucceededBefore(tr, i) ==
    \E j \in 1..(i - 1) :
        /\ tr[j].kind = "call" /\ tr[j].what = "push" /\ ~IsLatest(tr[j].args[1])
        /\ tr[j].idx = tr[i].idx
        /\ \E k \in (j + 1)..(i - 1) : tr[k].kind = "log" /\ tr[k].what = "PUSH_SUCCESS"

LoggedBefore(tr, i, codes) ==
    \E j \in 1..(i - 1) : tr[j].kind = "log" /\ tr[j].what \in codes

\* A run_docker invocation of op is entered in this step.
Enters(op) == rd' # rd /\ rd'.op = op /\ rd'.execs = 0 /\ ~rd'.done /\ pc' = "run_docker"

\* C27 as stated: a latest tag or push of a target follows a successful
\* versioned push of that target, and a target that was skipped or whose tag,
\* provisioning or versioned push failed gets neither.
C27_NoLatestAfterAnyFailedStep ==
    script = "mirror_image" =>
        \A i \in 1..Len(trace) :
            LatestCallAt(trace, i) =>
                /\ VersionedPushSucceededBefore(trace, i)
                /\ ~LoggedBefore(trace, i, {"IMAGE_ALREADY_EXISTS", "TAG_FAILED",
                                            "REPO_PREP_FAILED", "PUSH_FAILED"})

\* C27, amended: a latest tag is entered only by the step that received a
\* successful versioned push of the same target, a latest push only by the
\* step that received that successful latest tag; a target that was skipped or
\* whose tag or versioned push failed gets neither, and a target whose
\* provisioning failed gets them only with continue_on_error enabled (the
\* versioned push was attempted anyway and succeeded).
C27_LatestOnlyAfterVersionedPush ==
    /\ [](script = "mirror_image" =>
            \A i \in 1..Len(trace) :
                LatestCallAt(trace, i) =>
                    /\ VersionedPushSucceededBefore(trace, i)
                    /\ ~LoggedBefore(trace, i, {"IMAGE_ALREADY_EXISTS", "TAG_FAILED",
                                                "PUSH_FAILED"})
                    /\ LoggedBefore(trace, i, {"REPO_PREP_FAILED"}) => cfg.continue_on_error)
    /\ [][script = "mirror_image" /\ Enters("tag") /\ IsLatest(rd'.args[2])
            => /\ rd.op = "push" /\ rd.done /\ rd.result
               /\ rd.args = <<[rd'.args[2] EXCEPT !.tag = source_img[Len(source_img)][2]]>>
               /\ rd.args[1] \in registry]_vars
    /\ [][script = "mirror_image" /\ Enters("push") /\ IsLatest(rd'.args[1])
            => /\ rd.op = "tag" /\ rd.done /\ rd.result
               /\ rd.args = <<source_img, rd'.args[1]>>]_vars

\* C27 witness: provisioning failed for the target, the versioned push
\* succeeded all the same, and the latest alias was tagged and pushed.
C27_Witness ==
    /\ script = "mirror_image"
    /\ HasLog(trace, "REPO_PREP_FAILED")
    /\ HasLog(trace, "LATEST_UPDATED")
    /\ \E i \in 1..Len(trace) : LatestCallAt(trace, i) /\ trace[i].what = "push"


\* create_quay_repo has returned failure to mirror_image.
ProvisioningFailed ==
    pc = "create_quay_repo" /\ cq.done /\ ~cq.result /\ cq.ret = "mi_provisioned"

\* The trace holds a versioned or latest push.
HasPush(tr) == \E i \in 1..Len(tr) : IsEngineCall(tr[i], {"push"})

\* C28: when create_quay_repo fails for a target, then with continue_on_error
\* enabled the next step enters the push of that target's versioned reference
\* and leaves the task outcome alone; with it disabled the next step moves to
\* the next target with the outcome set to failure, no push is ever invoked
\* for the abandoned target, and mirror_image returns failure.
C28_ProvisioningFailureFollowsSwitch ==
    /\ [][script = "mirror_image" /\ ProvisioningFailed
            => IF cfg.continue_on_error
               THEN /\ Enters("push")
                    /\ rd'.args = <<CurPath.dest_img>>
                    /\ overall_success' = overall_success
                    /\ envIdx' = envIdx
               ELSE /\ ~Enters("push")
                    /\ pc' = "mi_env"
                    /\ envIdx' = envIdx + 1
                    /\ ~overall_success']_vars
    /\ [](script = "mirror_image" /\ ~cfg.continue_on_error /\ HasLog(trace, "REPO_PREP_FAILED")
            => /\ ~HasPush(trace)
               /\ ~overall_success
               /\ miResult # "True")

\* C28 witness: with continue_on_error disabled the first of two targets was
\* abandoned at provisioning, without a push, and the second is up next.
C28_Witness ==
    /\ script = "mirror_image" /\ ~cfg.continue_on_error
    /\ pc = "mi_env"
    /\ HasLog(trace, "REPO_PREP_FAILED")
    /\ envIdx = 2 /\ Len(target_envs) = 2
    /\ ~overall_success

\* C29: in a mirror_image call the pull of the source is entered only by the
\* first step of the call, for an authorized source, before any target is
\* looked at and before any other call; the call never returns to its first
\* step; and from then on exactly one pull was invoked for an authorized
\* source and none for a refused one, whatever the number of targets.
C29_SourcePulledOncePerTask ==
    /\ [][script = "mirror_image" /\ Enters("pull")
            => /\ pc = "mi_start"
               /\ SourceAuthorized(source_img)
               /\ rd'.args = <<source_img>>
               /\ envIdx = 1
               /\ trace = <<>>]_vars
    /\ [][script = "mirror_image" => pc' # "mi_start"]_vars
    /\ [](script = "mirror_image" /\ pc # "mi_start"
            => taskSum.pulls = IF SourceAuthorized(source_img) THEN 1 ELSE 0)

\* C29 witness: a call with two targets returned success after both targets
\* were processed, with one pull.
C29_Witness ==
    /\ script = "mirror_image"
    /\ pc = "mi_done" /\ miResult = "True"
    /\ Len(target_envs) = 2 /\ envIdx = 3
    /\ HasLog(trace, "LATEST_UPDATED")
    /\ taskSum.pulls = 1


\* run_docker has returned the failure of the source pull to mirror_image.
PullFailed == Returned("mi_pulled") /\ ~rd.result

\* The call has returned or raised after its pull was invoked and failed.
PullHadFailed == pc = "mi_done" /\ taskSum.pulls = 1 /\ ~taskSum.pullOk

\* C30: when the source pull fails, then with continue_on_error disabled the
\* next step returns failure and the pull is the only call the task made (no
\* existence check, tag, provisioning, push or removal); with it enabled the
\* next step marks the outcome failed and enters the target loop at the first
\* target, the outcome never turns back to success, and a call that returns
\* does so with failure after every target was processed.
C30_PullFailureFollowsSwitch ==
    /\ [][script = "mirror_image" /\ PullFailed
            => IF ~cfg.continue_on_error
               THEN /\ pc' = "mi_done" /\ miResult' = "False"
                    /\ \A i \in 1..Len(trace') :
                          trace'[i].kind = "call" => trace'[i].what = "pull"
               ELSE /\ pc' = "mi_env" /\ envIdx' = 1
                    /\ ~overall_success'
                    /\ miResult' = "none"]_vars
    /\ [][script = "mirror_image" /\ ~overall_success => ~overall_success']_vars
    /\ [](script = "mirror_image" /\ cfg.continue_on_error /\ PullHadFailed
            => /\ miResult \in {"False", "raised"}
               /\ miResult = "False" => envIdx = Len(target_envs) + 1)

\* C30 witness: the pull failed, both targets were mirrored all the same, and
\* the call returned failure.
C30_Witness ==
    /\ script = "mirror_image" /\ cfg.continue_on_error
    /\ pc = "mi_done" /\ miResult = "False"
    /\ taskSum.pulls = 1 /\ ~taskSum.pullOk /\ taskSum.allOk
    /\ Len(target_envs) = 2 /\ envIdx = 3
    /\ HasLog(trace, "LATEST_UPDATED")


\* mirror_image is in its cleanup block: at its entry or in one of its removals.
InCleanup == pc = "mi_cleanup" \/ (pc = "run_docker" /\ rd.op = "rmi")

\* C31: in mirror_image a removal is entered only with cleanup_local_images
\* set and after the target loop has gone through every target; no step of
\* the cleanup changes overall_success; and the step that ends the cleanup
\* returns overall_success as it stood when the loop ended, whatever the
\* removals reported.
C31_CleanupAfterTargetsAndOutcomeUntouched ==
    /\ [][script = "mirror_image" /\ Enters("rmi")
            => /\ cfg.cleanup_local_images
               /\ InCleanup
               /\ envIdx = Len(target_envs) + 1]_vars
    /\ [](script = "mirror_image" /\ InCleanup => envIdx = Len(target_envs) + 1)
    /\ [][script = "mirror_image" /\ InCleanup
            => /\ overall_success' = overall_success
               /\ pc' = "mi_done" => miResult' = PyBool(overall_success)
               /\ pc' # "mi_done" => miResult' = "none" /\ InCleanup']_vars

\* C31 witness: both references of the last target were pushed, the last
\* removal of the cleanup failed, and the outcome still stands at success.
C31_Witness ==
    /\ script = "mirror_image" /\ cfg.cleanup_local_images
    /\ pc = "run_docker" /\ rd.op = "rmi" /\ rd.ret = "mi_cl_latest"
    /\ rd.done /\ ~rd.result
    /\ clIdx = Len(target_envs) /\ Len(target_envs) = 2
    /\ overall_success /\ taskSum.allOk


\* The images for which tr records a removal, in order.
RECURSIVE RemovalsIn(_)
RemovalsIn(tr) ==
    IF tr = <<>> THEN <<>>
    ELSE (IF IsEngineCall(Head(tr), {"rmi -f"}) THEN <<Head(tr).args[1]>> ELSE <<>>)
         \o RemovalsIn(Tail(tr))

\* sync_image's call of op has returned failure.
SyncStepFailed(op) == script = "sync" /\ pc = "run_docker" /\ rd.done /\ ~rd.result /\ rd.op = op

\* C32: in sync_image a failed pull returns failure without any removal; a
\* failed tag is followed by the removal of the pulled source image alone, a
\* failed push by the removal of the source image and then of the destination
\* image; the call then returns failure (it does not raise), whatever the
\* removals reported.
C32_RollbackRemovesWhatWasCreated ==
    /\ [][SyncStepFailed("pull")
            => pc' = "sy_done" /\ syResult' = "False" /\ RemovalsIn(trace') = <<>>]_vars
    /\ [][SyncStepFailed("tag") \/ SyncStepFailed("push")
            => Enters("rmi -f") /\ rd'.args = <<prod_image>> /\ rd'.ret = "sy_cl_fail"]_vars
    /\ [][script = "sync" /\ pc = "run_docker" /\ rd.ret = "sy_cl_fail" /\ pc' # "run_docker"
            => pc' = "sy_done" /\ syResult' = "False"]_vars
    /\ [](script = "sync" /\ pc = "sy_done"
            => /\ syResult \in {"True", "False"}
               /\ HasLog(trace, "SYNC_PULL_FAILED") => RemovalsIn(trace) = <<>>
               /\ HasLog(trace, "SYNC_TAG_FAILED") => RemovalsIn(trace) = <<prod_image>>
               /\ HasLog(trace, "SYNC_PUSH_FAILED")
                    => RemovalsIn(trace) = <<prod_image, dr_image>>)

\* C32 witness: the push failed, both removals were issued, one of them
\* failed, and sync_image returned failure.
C32_Witness ==
    /\ script = "sync" /\ pc = "sy_done"
    /\ HasLog(trace, "SYNC_PUSH_FAILED")
    /\ RemovalsIn(trace) = <<prod_image, dr_image>>
    /\ task.store # {}
    /\ syResult = "False"


MirrorOutcomes == {"successful_images", "failed_images"}
SyncOutcomes == {"successful_images", "skipped_images", "failed_images"}

\* Exactly one counter of fields goes up by one from before to after, the
\* others of fields stay.
OneMore(before, after, fields) ==
    \E f \in fields : /\ after[f] = before[f] + 1
                      /\ \A g \in fields \ {f} : after[g] = before[g]

\* C34: in both runs no step lowers a counter; the step that counts a
\* finished task (mirror_image or sync_image has ended) raises exactly one
\* outcome counter by one and leaves the others and the total alone; no other
\* step changes an outcome counter.
C34_CountersMonotoneOnePerTask ==
    /\ [][/\ \A f \in MirrorOutcomes \cup {"total_images"} : run'[f] >= run[f]
          /\ \A f \in SyncOutcomes \cup {"total_images"} : stats'[f] >= stats[f]]_vars
    /\ [][script = "mirror_main"
            => IF pc = "mi_done"
               THEN OneMore(run, run', MirrorOutcomes) /\ run'.total_images = run.total_images
               ELSE \A f \in MirrorOutcomes : run'[f] = run[f]]_vars
    /\ [][script = "sync"
            => IF pc = "sy_done"
               THEN OneMore(stats, stats', SyncOutcomes)
                    /\ stats'.total_images = stats.total_images
               ELSE /\ \A f \in SyncOutcomes : stats'[f] = stats[f]
                    /\ stats'.total_images \in {stats.total_images, stats.total_images + 1}
                    /\ stats'.total_images # stats.total_images => pc' = "sy_start"]_vars

\* C34 witness: a bulk sync of two images ended with one success and one failure.
C34_Witness ==
    /\ script = "sync" /\ pc = "sm_done"
    /\ stats.total_images = 2
    /\ stats.successful_images = 1
    /\ stats.failed_images = 1


\* The mirror run's loop was left by "break": a task failed with
\* continue_on_error disabled.
Aborted == ~cfg.continue_on_error /\ run.failed_images > 0

\* The outcome counters add up to the total.
SyncCountersBalanced ==
    stats.total_images
        = stats.successful_images + stats.skipped_images + stats.failed_images

\* No sync task is under way: every tag entered so far has been counted.
BetweenSyncTasks == pc \in {"sm_start", "paging", "sm_repo", "sm_tag", "sm_done"}

\* The mirror run got past validate_config.
MirrorRunStarted == script = "mirror_main" /\ validate_config(catalog, tokens) = {} /\ taskIdx >= 1

\* The number of mirror tasks that have ended so far.
TasksEnded == IF pc = "mm_done" /\ Aborted THEN taskIdx ELSE taskIdx - 1

\* What both versions of C35 share: the bulk sync's counters balance between
\* tasks, and the mirror run's outcome counters add up to the number of tasks
\* ended so far, which never exceeds total_images.
CountersAddUp ==
    /\ script = "sync" /\ BetweenSyncTasks => SyncCountersBalanced
    /\ MirrorRunStarted
          => /\ run.successful_images + run.failed_images = TasksEnded
             /\ run.successful_images + run.failed_images <= run.total_images

\* C35 as stated: the counters add up, and a mirror run ends with
\* successful_images + failed_images = total_images exactly when it was not
\* aborted.
C35_FullCountExactlyWithoutAbort ==
    /\ CountersAddUp
    /\ MirrorRunStarted /\ pc = "mm_done"
          => (run.successful_images + run.failed_images = run.total_images <=> ~Aborted)

\* C35, amended: the counters add up; a mirror run that was not aborted ends
\* with successful_images + failed_images = total_images; an aborted run ends
\* with one failure, and with the full count only when the task that failed
\* was the last of the list.
C35_FullCountWithoutAbortOrAbortAtLastTask ==
    /\ CountersAddUp
    /\ MirrorRunStarted /\ pc = "mm_done"
          => /\ ~Aborted => run.successful_images + run.failed_images = run.total_images
             /\ Aborted => /\ run.failed_images = 1
                            /\ run.successful_images + run.failed_images = run.total_images
                                  <=> taskIdx = Len(catalog)

\* C35 witness: with continue_on_error disabled the third of three tasks
\* failed; the run was aborted with the full count.
C35_Witness ==
    /\ script = "mirror_main" /\ pc = "mm_done"
    /\ Aborted
    /\ Len(catalog) = 3
    /\ run.successful_images = 2 /\ run.failed_images = 1


\* The tag listing of the current repository has come back empty.
EmptyTagListing ==
    script = "sync" /\ pc = "paging" /\ pg.done /\ pg.kind = "tags" /\ pg.all = <<>>

\* C36: in the bulk sync, the step that receives an empty tag listing (the
\* repository has no tag, or the request failed or could not be parsed) moves
\* to the next repository and changes neither a counter nor the exit status;
\* the exit status of a run that processed its repositories is 0 exactly when
\* failed_images is 0, whatever was passed over.
C36_EmptyTagListingCountsNothing ==
    /\ [][EmptyTagListing
            => /\ stats' = stats
               /\ exitCode' = exitCode
               /\ pc' = "sm_repo" /\ repoIdx' = repoIdx + 1]_vars
    /\ [](script = "sync" /\ pc = "sm_done" /\ repositories # <<>>
            => /\ exitCode \in {0, 1}
               /\ exitCode = 0 <=> stats.failed_images = 0)

\* C36 witness: the only repository holds a tag, its tag request failed, and
\* the run ended with status 0 without having processed an image.
C36_Witness ==
    /\ script = "sync" /\ pc = "sm_done"
    /\ Len(prodCatalog) = 1 /\ Len(prodCatalog[1].tags) = 1
    /\ repositories = <<prodCatalog[1].name>>
    /\ stats.total_images = 0
    /\ exitCode = 0


\* The repository discovery has come back empty.
EmptyDiscovery ==
    script = "sync" /\ pc = "paging" /\ pg.done /\ pg.kind = "repositories" /\ pg.all = <<>>

\* C37: in the bulk sync, the step that receives an empty repository list
\* (the namespace is empty, or the first request failed) ends the run with
\* status 1; the run has then entered no task, requested no tag listing and
\* made no engine call, and no step follows.
C37_EmptyDiscoveryEndsRunWithFailure ==
    /\ [][EmptyDiscovery => pc' = "sm_done" /\ exitCode' = 1]_vars
    /\ [](script = "sync" /\ (EmptyDiscovery \/ (pc = "sm_done" /\ repositories = <<>>))
            => /\ stats.total_images = 0
               /\ task = NoTask
               /\ trace = <<>> /\ rd = RdIdle /\ local_images = <<>>
               /\ pg.kind # "tags"
               /\ pc = "sm_done" => exitCode = 1 /\ pg = PgIdle)
    /\ [][script = "sync" => pc # "sm_done"]_vars

\* C37 witness: the source holds two repositories, the first discovery
\* request failed, and the run ended with status 1.
C37_Witness ==
    /\ script = "sync" /\ pc = "sm_done"
    /\ Len(prodCatalog) = 2
    /\ repositories = <<>>
    /\ exitCode = 1


\* tr records a manifest inspection of ref that ended with exit status 0.
InspectedPresent(tr, ref) ==
    \E i \in 1..Len(tr) :
        /\ tr[i].kind = "call" /\ tr[i].what = "manifest inspect"
        /\ tr[i].args = <<ref>>
        /\ tr[i].res = "exit0"

\* C38: sync_image returns success only when, in the same call, a manifest
\* inspection of the destination reference ended with exit status 0: the
\* existence check before the pull, or the verification after the push.  A
\* push reported successful is not enough.
C38_SuccessOnlyAfterInspectionExit0 ==
    /\ [](script = "sync" /\ pc = "sy_done" /\ syResult = "True"
            => InspectedPresent(trace, dr_image))
    /\ [][script = "sync" /\ syResult' = "True" /\ syResult # "True"
            => InspectedPresent(trace', dr_image)]_vars
    /\ [][script = "sync" /\ Returned("sy_pushed") /\ rd.result
            => \/ InspectedPresent(trace', dr_image) /\ rd'.ret = "sy_cl_ok"
               \/ ~InspectedPresent(trace', dr_image) /\ rd'.ret = "sy_cl_fail"]_vars

\* C38 witness: the push was reported successful, the verification did not
\* report the reference, and sync_image returned failure although the
\* reference is at the destination.
C38_Witness ==
    /\ script = "sync" /\ pc = "sy_done"
    /\ CountCalls(trace, "push") = 1
    /\ ~HasLog(trace, "SYNC_PUSH_FAILED")
    /\ ~InspectedPresent(trace, dr_image)
    /\ dr_image \in registry
    /\ syResult = "False"


\* C39: in mirror_image the ENV_SUCCESS entry is logged for a target only
\* when the versioned push and the latest push of that target both succeeded.
C39_EnvSuccessOnlyAfterBothPushes ==
    (script = "mirror_image" /\ HasLog(trace, "ENV_SUCCESS"))
        => /\ HasLog(trace, "PUSH_SUCCESS")
           /\ HasLog(trace, "LATEST_UPDATED")
           /\ ~HasLog(trace, "PUSH_FAILED")
           /\ ~HasLog(trace, "LATEST_TAG_FAILED")
           /\ ~HasLog(trace, "LATEST_PUSH_FAILED")


\* Target i of the task is not a key of REGISTRIES.
UnknownTarget(i) == i \in DOMAIN target_envs /\ target_envs[i] \notin DOMAIN REGISTRIES

\* C40: in mirror_image the step that looks at a target REGISTRIES does not
\* know sets the outcome to failure and moves to the next target without
\* entering a call; no engine or API call, of the target loop or of the
\* cleanup, is ever made for such a target; and a call that reached such a
\* target never ends in success (it returns False, or a later target raises).
C40_UnknownTargetFailsTaskWithoutCalls ==
    /\ [][script = "mirror_image" /\ pc = "mi_env" /\ UnknownTarget(envIdx)
            => /\ ~overall_success'
               /\ envIdx' = envIdx + 1 /\ pc' = "mi_env"
               /\ rd' = rd /\ cq' = cq /\ registry' = registry
               /\ \A i \in 1..Len(trace') : trace'[i].kind # "call"]_vars
    /\ [](script = "mirror_image"
            => /\ \A i \in 1..Len(trace) :
                    trace[i].kind = "call" /\ trace[i].idx >= 1 => ~UnknownTarget(trace[i].idx)
               /\ \A i \in 1..(envIdx - 1) : UnknownTarget(i) => ~overall_success
               /\ (pc = "mi_done" /\ \E i \in 1..(envIdx - 1) : UnknownTarget(i))
                    => miResult # "True")

\* C40 witness: the first target is unknown, the second was mirrored, the
\* cleanup ran, and the call returned failure.
C40_Witness ==
    /\ script = "mirror_image" /\ cfg.cleanup_local_images
    /\ pc = "mi_done" /\ miResult = "False"
    /\ Len(target_envs) = 2 /\ UnknownTarget(1) /\ ~UnknownTarget(2)
    /\ taskSum.pullOk
    /\ registry # {}
    /\ HasLog(trace, "CLEANUP_DONE")

====
